---- MODULE Spec2Model ----
(***************************************************************************)
(* CONL persistence of stamp metadata in the usps crate:                   *)
(*   conl_ser.rs  escape_value, format_multiline, StampMetadata::to_conl   *)
(*   generate.rs  parse_conl (line-by-line parser), load_stamp             *)
(* A text is the sequence of its chars, each the number of its code point. *)
(* The parser is modelled                                                   *)
(* one loop iteration per step, with the line index i kept 0-based as in   *)
(* the source (the element read is lines[i + 1] here).                     *)
(***************************************************************************)
EXTENDS Integers, Sequences, FiniteSets, TLC

(***************************************************************************)
(* Bounds of the model.                                                    *)
(***************************************************************************)
MaxStrLen == 2
MaxDocLines == 3

(***************************************************************************)
(* Characters.                                                             *)
(***************************************************************************)
\* the code point of an ASCII character a literal of the source is written
\* with.  Ascii: the characters from U+0020 to U+007E in their order, a space
\* in the place of U+0060
Chr ==
    LET Ascii == " !\"#$%&'()*+,-./0123456789:;<=>?@ABCDEFGHIJKLMNOPQRSTUVWXYZ[\\]^_ abcdefghijklmnopqrstuvwxyz{|}~"
    IN  [c \in {SubSeq(Ascii, k, k) : k \in 1..95} |->
            31 + CHOOSE k \in 1..95 \ {65} : SubSeq(Ascii, k, k) = c]

\* a string literal of the source, as a text
Str(s) == [k \in 1..Len(s) |-> Chr[SubSeq(s, k, k)]]

SP == 32
DQ == 34
BS == 92
LF == 10
CR == 13
TAB == 9
\* U+000B, U+000C, U+0085, U+00A0, U+1680
VT == 11
FF == 12
NEL == 133
NBSP == 160
OGHAM == 5760
SEMI == 59
EQ == 61

None == [tag |-> "None"]
Some(x) == [tag |-> "Some", v |-> x]
IsSome(o) == o.tag = "Some"

(***************************************************************************)
(* str primitives of the Rust standard library used by the source.         *)
(***************************************************************************)
\* char::is_whitespace: the characters with the Unicode property White_Space
IsWhitespace(c) == \/ c \in {TAB, LF, VT, FF, CR, SP, NEL, NBSP, OGHAM}
                   \/ c \in 8192..8202
                   \/ c \in {8232, 8233, 8239, 8287, 12288}

starts_with(s, p) == Len(s) >= Len(p) /\ SubSeq(s, 1, Len(p)) = p

ends_with(s, p) == Len(s) >= Len(p) /\ SubSeq(s, Len(s) - Len(p) + 1, Len(s)) = p

\* positions (1-based) at which p occurs in s
Occurrences(s, p) == {k \in 1..(Len(s) - Len(p) + 1) : SubSeq(s, k, k + Len(p) - 1) = p}

contains(s, p) == Occurrences(s, p) # {}

Min(S) == CHOOSE x \in S : \A y \in S : x <= y
Max(S) == CHOOSE x \in S : \A y \in S : y <= x

RECURSIVE trim_start(_)
trim_start(s) == IF s # <<>> /\ IsWhitespace(Head(s)) THEN trim_start(Tail(s)) ELSE s

RECURSIVE trim_end(_)
trim_end(s) == IF s # <<>> /\ IsWhitespace(s[Len(s)]) THEN trim_end(SubSeq(s, 1, Len(s) - 1)) ELSE s

trim(s) == trim_end(trim_start(s))

\* str::split_once: split at the first occurrence of the delimiter
split_once(s, p) == IF contains(s, p)
                    THEN LET k == Min(Occurrences(s, p))
                         IN  Some(<<SubSeq(s, 1, k - 1), SubSeq(s, k + Len(p), Len(s))>>)
                    ELSE None

strip_prefix(s, p) == IF starts_with(s, p) THEN Some(SubSeq(s, Len(p) + 1, Len(s))) ELSE None

\* str::replace for a one-character pattern
RECURSIVE replace(_, _, _)
replace(s, c, r) == IF s = <<>> THEN <<>>
                    ELSE (IF Head(s) = c THEN r ELSE <<Head(s)>>) \o replace(Tail(s), c, r)

\* str::lines: split at LF, a CR before the LF is dropped, no final empty line
LFPositions(s) == {k \in 1..Len(s) : s[k] = LF}

str_lines(s) ==
    LET lfs == LFPositions(s)
        nlf == Cardinality(lfs)
        \* the positions of the line feeds, ascending
        pos == [j \in 1..nlf |-> CHOOSE k \in lfs : Cardinality({m \in lfs : m <= k}) = j]
        cnt == nlf + (IF s # <<>> /\ s[Len(s)] # LF THEN 1 ELSE 0)
        pieces == [j \in 1..cnt |-> SubSeq(s, IF j = 1 THEN 1 ELSE pos[j - 1] + 1,
                                              IF j <= nlf THEN pos[j] - 1 ELSE Len(s))]
    IN  [j \in 1..cnt |->
            IF j <= nlf /\ pieces[j] # <<>> /\ pieces[j][Len(pieces[j])] = CR
            THEN SubSeq(pieces[j], 1, Len(pieces[j]) - 1)
            ELSE pieces[j]]

\* [String]::join
RECURSIVE join(_, _)
join(ls, sep) == IF ls = <<>> THEN <<>>
                 ELSE IF Len(ls) = 1 THEN ls[1]
                 ELSE LET h == Len(ls) \div 2
                      IN  join(SubSeq(ls, 1, h), sep) \o sep \o join(SubSeq(ls, h + 1, Len(ls)), sep)

(***************************************************************************)
(* str::to_lowercase, with the tables of the Unicode Character Database    *)
(* (version 17.0) that the standard library carries.                       *)
(***************************************************************************)
\* the characters with another lower-case form of one character, as <<first,
\* last, step, distance>>: first, first + step, ... last each map to the
\* character distance above.  U+0130, which has a lower-case form of two
\* characters, is not in the table.
LowercaseTable == <<
    <<65, 90, 1, 32>>, <<192, 214, 1, 32>>, <<216, 222, 1, 32>>, <<256, 302, 2, 1>>,
    <<306, 310, 2, 1>>, <<313, 327, 2, 1>>, <<330, 374, 2, 1>>, <<376, 376, 1, -121>>,
    <<377, 381, 2, 1>>, <<385, 385, 1, 210>>, <<386, 388, 2, 1>>, <<390, 390, 1, 206>>,
    <<391, 391, 1, 1>>, <<393, 394, 1, 205>>, <<395, 395, 1, 1>>, <<398, 398, 1, 79>>,
    <<399, 399, 1, 202>>, <<400, 400, 1, 203>>, <<401, 401, 1, 1>>, <<403, 403, 1, 205>>,
    <<404, 404, 1, 207>>, <<406, 406, 1, 211>>, <<407, 407, 1, 209>>, <<408, 408, 1, 1>>,
    <<412, 412, 1, 211>>, <<413, 413, 1, 213>>, <<415, 415, 1, 214>>, <<416, 420, 2, 1>>,
    <<422, 422, 1, 218>>, <<423, 423, 1, 1>>, <<425, 425, 1, 218>>, <<428, 428, 1, 1>>,
    <<430, 430, 1, 218>>, <<431, 431, 1, 1>>, <<433, 434, 1, 217>>, <<435, 437, 2, 1>>,
    <<439, 439, 1, 219>>, <<440, 440, 1, 1>>, <<444, 444, 1, 1>>, <<452, 452, 1, 2>>,
    <<453, 453, 1, 1>>, <<455, 455, 1, 2>>, <<456, 456, 1, 1>>, <<458, 458, 1, 2>>,
    <<459, 475, 2, 1>>, <<478, 494, 2, 1>>, <<497, 497, 1, 2>>, <<498, 500, 2, 1>>,
    <<502, 502, 1, -97>>, <<503, 503, 1, -56>>, <<504, 542, 2, 1>>, <<544, 544, 1, -130>>,
    <<546, 562, 2, 1>>, <<570, 570, 1, 10795>>, <<571, 571, 1, 1>>, <<573, 573, 1, -163>>,
    <<574, 574, 1, 10792>>, <<577, 577, 1, 1>>, <<579, 579, 1, -195>>, <<580, 580, 1, 69>>,
    <<581, 581, 1, 71>>, <<582, 590, 2, 1>>, <<880, 882, 2, 1>>, <<886, 886, 1, 1>>,
    <<895, 895, 1, 116>>, <<902, 902, 1, 38>>, <<904, 906, 1, 37>>, <<908, 908, 1, 64>>,
    <<910, 911, 1, 63>>, <<913, 929, 1, 32>>, <<931, 939, 1, 32>>, <<975, 975, 1, 8>>,
    <<984, 1006, 2, 1>>, <<1012, 1012, 1, -60>>, <<1015, 1015, 1, 1>>, <<1017, 1017, 1, -7>>,
    <<1018, 1018, 1, 1>>, <<1021, 1023, 1, -130>>, <<1024, 1039, 1, 80>>, <<1040, 1071, 1, 32>>,
    <<1120, 1152, 2, 1>>, <<1162, 1214, 2, 1>>, <<1216, 1216, 1, 15>>, <<1217, 1229, 2, 1>>,
    <<1232, 1326, 2, 1>>, <<1329, 1366, 1, 48>>, <<4256, 4293, 1, 7264>>, <<4295, 4295, 1, 7264>>,
    <<4301, 4301, 1, 7264>>, <<5024, 5103, 1, 38864>>, <<5104, 5109, 1, 8>>, <<7305, 7305, 1, 1>>,
    <<7312, 7354, 1, -3008>>, <<7357, 7359, 1, -3008>>, <<7680, 7828, 2, 1>>,
    <<7838, 7838, 1, -7615>>, <<7840, 7934, 2, 1>>, <<7944, 7951, 1, -8>>, <<7960, 7965, 1, -8>>,
    <<7976, 7983, 1, -8>>, <<7992, 7999, 1, -8>>, <<8008, 8013, 1, -8>>, <<8025, 8031, 2, -8>>,
    <<8040, 8047, 1, -8>>, <<8072, 8079, 1, -8>>, <<8088, 8095, 1, -8>>, <<8104, 8111, 1, -8>>,
    <<8120, 8121, 1, -8>>, <<8122, 8123, 1, -74>>, <<8124, 8124, 1, -9>>, <<8136, 8139, 1, -86>>,
    <<8140, 8140, 1, -9>>, <<8152, 8153, 1, -8>>, <<8154, 8155, 1, -100>>, <<8168, 8169, 1, -8>>,
    <<8170, 8171, 1, -112>>, <<8172, 8172, 1, -7>>, <<8184, 8185, 1, -128>>,
    <<8186, 8187, 1, -126>>, <<8188, 8188, 1, -9>>, <<8486, 8486, 1, -7517>>,
    <<8490, 8490, 1, -8383>>, <<8491, 8491, 1, -8262>>, <<8498, 8498, 1, 28>>,
    <<8544, 8559, 1, 16>>, <<8579, 8579, 1, 1>>, <<9398, 9423, 1, 26>>, <<11264, 11311, 1, 48>>,
    <<11360, 11360, 1, 1>>, <<11362, 11362, 1, -10743>>, <<11363, 11363, 1, -3814>>,
    <<11364, 11364, 1, -10727>>, <<11367, 11371, 2, 1>>, <<11373, 11373, 1, -10780>>,
    <<11374, 11374, 1, -10749>>, <<11375, 11375, 1, -10783>>, <<11376, 11376, 1, -10782>>,
    <<11378, 11378, 1, 1>>, <<11381, 11381, 1, 1>>, <<11390, 11391, 1, -10815>>,
    <<11392, 11490, 2, 1>>, <<11499, 11501, 2, 1>>, <<11506, 11506, 1, 1>>, <<42560, 42604, 2, 1>>,
    <<42624, 42650, 2, 1>>, <<42786, 42798, 2, 1>>, <<42802, 42862, 2, 1>>, <<42873, 42875, 2, 1>>,
    <<42877, 42877, 1, -35332>>, <<42878, 42886, 2, 1>>, <<42891, 42891, 1, 1>>,
    <<42893, 42893, 1, -42280>>, <<42896, 42898, 2, 1>>, <<42902, 42920, 2, 1>>,
    <<42922, 42922, 1, -42308>>, <<42923, 42923, 1, -42319>>, <<42924, 42924, 1, -42315>>,
    <<42925, 42925, 1, -42305>>, <<42926, 42926, 1, -42308>>, <<42928, 42928, 1, -42258>>,
    <<42929, 42929, 1, -42282>>, <<42930, 42930, 1, -42261>>, <<42931, 42931, 1, 928>>,
    <<42932, 42946, 2, 1>>, <<42948, 42948, 1, -48>>, <<42949, 42949, 1, -42307>>,
    <<42950, 42950, 1, -35384>>, <<42951, 42953, 2, 1>>, <<42955, 42955, 1, -42343>>,
    <<42956, 42970, 2, 1>>, <<42972, 42972, 1, -42561>>, <<42997, 42997, 1, 1>>,
    <<65313, 65338, 1, 32>>, <<66560, 66599, 1, 40>>, <<66736, 66771, 1, 40>>,
    <<66928, 66938, 1, 39>>, <<66940, 66954, 1, 39>>, <<66956, 66962, 1, 39>>,
    <<66964, 66965, 1, 39>>, <<68736, 68786, 1, 64>>, <<68944, 68965, 1, 32>>,
    <<71840, 71871, 1, 32>>, <<93760, 93791, 1, 32>>, <<93856, 93880, 1, 27>>,
    <<125184, 125217, 1, 34>>>>

\* the characters with the property Cased, as <<first, last>>
CasedRanges == <<
    <<65, 90>>, <<97, 122>>, <<170, 170>>, <<181, 181>>, <<186, 186>>, <<192, 214>>, <<216, 246>>,
    <<248, 442>>, <<444, 447>>, <<452, 659>>, <<662, 696>>, <<704, 705>>, <<736, 740>>,
    <<837, 837>>, <<880, 883>>, <<886, 887>>, <<890, 893>>, <<895, 895>>, <<902, 902>>,
    <<904, 906>>, <<908, 908>>, <<910, 929>>, <<931, 1013>>, <<1015, 1153>>, <<1162, 1327>>,
    <<1329, 1366>>, <<1376, 1416>>, <<4256, 4293>>, <<4295, 4295>>, <<4301, 4301>>, <<4304, 4346>>,
    <<4348, 4351>>, <<5024, 5109>>, <<5112, 5117>>, <<7296, 7306>>, <<7312, 7354>>, <<7357, 7359>>,
    <<7424, 7615>>, <<7680, 7957>>, <<7960, 7965>>, <<7968, 8005>>, <<8008, 8013>>, <<8016, 8023>>,
    <<8025, 8025>>, <<8027, 8027>>, <<8029, 8029>>, <<8031, 8061>>, <<8064, 8116>>, <<8118, 8124>>,
    <<8126, 8126>>, <<8130, 8132>>, <<8134, 8140>>, <<8144, 8147>>, <<8150, 8155>>, <<8160, 8172>>,
    <<8178, 8180>>, <<8182, 8188>>, <<8305, 8305>>, <<8319, 8319>>, <<8336, 8348>>, <<8450, 8450>>,
    <<8455, 8455>>, <<8458, 8467>>, <<8469, 8469>>, <<8473, 8477>>, <<8484, 8484>>, <<8486, 8486>>,
    <<8488, 8488>>, <<8490, 8493>>, <<8495, 8500>>, <<8505, 8505>>, <<8508, 8511>>, <<8517, 8521>>,
    <<8526, 8526>>, <<8544, 8575>>, <<8579, 8580>>, <<9398, 9449>>, <<11264, 11492>>,
    <<11499, 11502>>, <<11506, 11507>>, <<11520, 11557>>, <<11559, 11559>>, <<11565, 11565>>,
    <<42560, 42605>>, <<42624, 42653>>, <<42786, 42887>>, <<42891, 42894>>, <<42896, 42972>>,
    <<42993, 42998>>, <<43000, 43002>>, <<43824, 43866>>, <<43868, 43881>>, <<43888, 43967>>,
    <<64256, 64262>>, <<64275, 64279>>, <<65313, 65338>>, <<65345, 65370>>, <<66560, 66639>>,
    <<66736, 66771>>, <<66776, 66811>>, <<66928, 66938>>, <<66940, 66954>>, <<66956, 66962>>,
    <<66964, 66965>>, <<66967, 66977>>, <<66979, 66993>>, <<66995, 67001>>, <<67003, 67004>>,
    <<67456, 67456>>, <<67459, 67461>>, <<67463, 67504>>, <<67506, 67514>>, <<68736, 68786>>,
    <<68800, 68850>>, <<68944, 68965>>, <<68976, 68997>>, <<71840, 71903>>, <<93760, 93823>>,
    <<93856, 93880>>, <<93883, 93907>>, <<119808, 119892>>, <<119894, 119964>>, <<119966, 119967>>,
    <<119970, 119970>>, <<119973, 119974>>, <<119977, 119980>>, <<119982, 119993>>,
    <<119995, 119995>>, <<119997, 120003>>, <<120005, 120069>>, <<120071, 120074>>,
    <<120077, 120084>>, <<120086, 120092>>, <<120094, 120121>>, <<120123, 120126>>,
    <<120128, 120132>>, <<120134, 120134>>, <<120138, 120144>>, <<120146, 120485>>,
    <<120488, 120512>>, <<120514, 120538>>, <<120540, 120570>>, <<120572, 120596>>,
    <<120598, 120628>>, <<120630, 120654>>, <<120656, 120686>>, <<120688, 120712>>,
    <<120714, 120744>>, <<120746, 120770>>, <<120772, 120779>>, <<122624, 122633>>,
    <<122635, 122654>>, <<122661, 122666>>, <<122928, 122989>>, <<125184, 125251>>,
    <<127280, 127305>>, <<127312, 127337>>, <<127344, 127369>>>>

\* the characters with the property Case_Ignorable, as <<first, last>>
CaseIgnorableRanges == <<
    <<39, 39>>, <<46, 46>>, <<58, 58>>, <<94, 94>>, <<96, 96>>, <<168, 168>>, <<173, 173>>,
    <<175, 175>>, <<180, 180>>, <<183, 184>>, <<688, 879>>, <<884, 885>>, <<890, 890>>,
    <<900, 901>>, <<903, 903>>, <<1155, 1161>>, <<1369, 1369>>, <<1375, 1375>>, <<1425, 1469>>,
    <<1471, 1471>>, <<1473, 1474>>, <<1476, 1477>>, <<1479, 1479>>, <<1524, 1524>>, <<1536, 1541>>,
    <<1552, 1562>>, <<1564, 1564>>, <<1600, 1600>>, <<1611, 1631>>, <<1648, 1648>>, <<1750, 1757>>,
    <<1759, 1768>>, <<1770, 1773>>, <<1807, 1807>>, <<1809, 1809>>, <<1840, 1866>>, <<1958, 1968>>,
    <<2027, 2037>>, <<2042, 2042>>, <<2045, 2045>>, <<2070, 2093>>, <<2137, 2139>>, <<2184, 2184>>,
    <<2192, 2193>>, <<2199, 2207>>, <<2249, 2306>>, <<2362, 2362>>, <<2364, 2364>>, <<2369, 2376>>,
    <<2381, 2381>>, <<2385, 2391>>, <<2402, 2403>>, <<2417, 2417>>, <<2433, 2433>>, <<2492, 2492>>,
    <<2497, 2500>>, <<2509, 2509>>, <<2530, 2531>>, <<2558, 2558>>, <<2561, 2562>>, <<2620, 2620>>,
    <<2625, 2626>>, <<2631, 2632>>, <<2635, 2637>>, <<2641, 2641>>, <<2672, 2673>>, <<2677, 2677>>,
    <<2689, 2690>>, <<2748, 2748>>, <<2753, 2757>>, <<2759, 2760>>, <<2765, 2765>>, <<2786, 2787>>,
    <<2810, 2815>>, <<2817, 2817>>, <<2876, 2876>>, <<2879, 2879>>, <<2881, 2884>>, <<2893, 2893>>,
    <<2901, 2902>>, <<2914, 2915>>, <<2946, 2946>>, <<3008, 3008>>, <<3021, 3021>>, <<3072, 3072>>,
    <<3076, 3076>>, <<3132, 3132>>, <<3134, 3136>>, <<3142, 3144>>, <<3146, 3149>>, <<3157, 3158>>,
    <<3170, 3171>>, <<3201, 3201>>, <<3260, 3260>>, <<3263, 3263>>, <<3270, 3270>>, <<3276, 3277>>,
    <<3298, 3299>>, <<3328, 3329>>, <<3387, 3388>>, <<3393, 3396>>, <<3405, 3405>>, <<3426, 3427>>,
    <<3457, 3457>>, <<3530, 3530>>, <<3538, 3540>>, <<3542, 3542>>, <<3633, 3633>>, <<3636, 3642>>,
    <<3654, 3662>>, <<3761, 3761>>, <<3764, 3772>>, <<3782, 3782>>, <<3784, 3790>>, <<3864, 3865>>,
    <<3893, 3893>>, <<3895, 3895>>, <<3897, 3897>>, <<3953, 3966>>, <<3968, 3972>>, <<3974, 3975>>,
    <<3981, 3991>>, <<3993, 4028>>, <<4038, 4038>>, <<4141, 4144>>, <<4146, 4151>>, <<4153, 4154>>,
    <<4157, 4158>>, <<4184, 4185>>, <<4190, 4192>>, <<4209, 4212>>, <<4226, 4226>>, <<4229, 4230>>,
    <<4237, 4237>>, <<4253, 4253>>, <<4348, 4348>>, <<4957, 4959>>, <<5906, 5908>>, <<5938, 5939>>,
    <<5970, 5971>>, <<6002, 6003>>, <<6068, 6069>>, <<6071, 6077>>, <<6086, 6086>>, <<6089, 6099>>,
    <<6103, 6103>>, <<6109, 6109>>, <<6155, 6159>>, <<6211, 6211>>, <<6277, 6278>>, <<6313, 6313>>,
    <<6432, 6434>>, <<6439, 6440>>, <<6450, 6450>>, <<6457, 6459>>, <<6679, 6680>>, <<6683, 6683>>,
    <<6742, 6742>>, <<6744, 6750>>, <<6752, 6752>>, <<6754, 6754>>, <<6757, 6764>>, <<6771, 6780>>,
    <<6783, 6783>>, <<6823, 6823>>, <<6832, 6877>>, <<6880, 6891>>, <<6912, 6915>>, <<6964, 6964>>,
    <<6966, 6970>>, <<6972, 6972>>, <<6978, 6978>>, <<7019, 7027>>, <<7040, 7041>>, <<7074, 7077>>,
    <<7080, 7081>>, <<7083, 7085>>, <<7142, 7142>>, <<7144, 7145>>, <<7149, 7149>>, <<7151, 7153>>,
    <<7212, 7219>>, <<7222, 7223>>, <<7288, 7293>>, <<7376, 7378>>, <<7380, 7392>>, <<7394, 7400>>,
    <<7405, 7405>>, <<7412, 7412>>, <<7416, 7417>>, <<7468, 7530>>, <<7544, 7544>>, <<7579, 7679>>,
    <<8125, 8125>>, <<8127, 8129>>, <<8141, 8143>>, <<8157, 8159>>, <<8173, 8175>>, <<8189, 8190>>,
    <<8203, 8207>>, <<8216, 8217>>, <<8228, 8228>>, <<8231, 8231>>, <<8234, 8238>>, <<8288, 8292>>,
    <<8294, 8303>>, <<8305, 8305>>, <<8319, 8319>>, <<8336, 8348>>, <<8400, 8432>>,
    <<11388, 11389>>, <<11503, 11505>>, <<11631, 11631>>, <<11647, 11647>>, <<11744, 11775>>,
    <<11823, 11823>>, <<12293, 12293>>, <<12330, 12333>>, <<12337, 12341>>, <<12347, 12347>>,
    <<12441, 12446>>, <<12540, 12542>>, <<40981, 40981>>, <<42232, 42237>>, <<42508, 42508>>,
    <<42607, 42610>>, <<42612, 42621>>, <<42623, 42623>>, <<42652, 42655>>, <<42736, 42737>>,
    <<42752, 42785>>, <<42864, 42864>>, <<42888, 42890>>, <<42993, 42996>>, <<43000, 43001>>,
    <<43010, 43010>>, <<43014, 43014>>, <<43019, 43019>>, <<43045, 43046>>, <<43052, 43052>>,
    <<43204, 43205>>, <<43232, 43249>>, <<43263, 43263>>, <<43302, 43309>>, <<43335, 43345>>,
    <<43392, 43394>>, <<43443, 43443>>, <<43446, 43449>>, <<43452, 43453>>, <<43471, 43471>>,
    <<43493, 43494>>, <<43561, 43566>>, <<43569, 43570>>, <<43573, 43574>>, <<43587, 43587>>,
    <<43596, 43596>>, <<43632, 43632>>, <<43644, 43644>>, <<43696, 43696>>, <<43698, 43700>>,
    <<43703, 43704>>, <<43710, 43711>>, <<43713, 43713>>, <<43741, 43741>>, <<43756, 43757>>,
    <<43763, 43764>>, <<43766, 43766>>, <<43867, 43871>>, <<43881, 43883>>, <<44005, 44005>>,
    <<44008, 44008>>, <<44013, 44013>>, <<64286, 64286>>, <<64434, 64450>>, <<65024, 65039>>,
    <<65043, 65043>>, <<65056, 65071>>, <<65106, 65106>>, <<65109, 65109>>, <<65279, 65279>>,
    <<65287, 65287>>, <<65294, 65294>>, <<65306, 65306>>, <<65342, 65342>>, <<65344, 65344>>,
    <<65392, 65392>>, <<65438, 65439>>, <<65507, 65507>>, <<65529, 65531>>, <<66045, 66045>>,
    <<66272, 66272>>, <<66422, 66426>>, <<67456, 67461>>, <<67463, 67504>>, <<67506, 67514>>,
    <<68097, 68099>>, <<68101, 68102>>, <<68108, 68111>>, <<68152, 68154>>, <<68159, 68159>>,
    <<68325, 68326>>, <<68900, 68903>>, <<68942, 68942>>, <<68969, 68973>>, <<68975, 68975>>,
    <<69291, 69292>>, <<69317, 69317>>, <<69370, 69375>>, <<69446, 69456>>, <<69506, 69509>>,
    <<69633, 69633>>, <<69688, 69702>>, <<69744, 69744>>, <<69747, 69748>>, <<69759, 69761>>,
    <<69811, 69814>>, <<69817, 69818>>, <<69821, 69821>>, <<69826, 69826>>, <<69837, 69837>>,
    <<69888, 69890>>, <<69927, 69931>>, <<69933, 69940>>, <<70003, 70003>>, <<70016, 70017>>,
    <<70070, 70078>>, <<70089, 70092>>, <<70095, 70095>>, <<70191, 70193>>, <<70196, 70196>>,
    <<70198, 70199>>, <<70206, 70206>>, <<70209, 70209>>, <<70367, 70367>>, <<70371, 70378>>,
    <<70400, 70401>>, <<70459, 70460>>, <<70464, 70464>>, <<70502, 70508>>, <<70512, 70516>>,
    <<70587, 70592>>, <<70606, 70606>>, <<70608, 70608>>, <<70610, 70610>>, <<70625, 70626>>,
    <<70712, 70719>>, <<70722, 70724>>, <<70726, 70726>>, <<70750, 70750>>, <<70835, 70840>>,
    <<70842, 70842>>, <<70847, 70848>>, <<70850, 70851>>, <<71090, 71093>>, <<71100, 71101>>,
    <<71103, 71104>>, <<71132, 71133>>, <<71219, 71226>>, <<71229, 71229>>, <<71231, 71232>>,
    <<71339, 71339>>, <<71341, 71341>>, <<71344, 71349>>, <<71351, 71351>>, <<71453, 71453>>,
    <<71455, 71455>>, <<71458, 71461>>, <<71463, 71467>>, <<71727, 71735>>, <<71737, 71738>>,
    <<71995, 71996>>, <<71998, 71998>>, <<72003, 72003>>, <<72148, 72151>>, <<72154, 72155>>,
    <<72160, 72160>>, <<72193, 72202>>, <<72243, 72248>>, <<72251, 72254>>, <<72263, 72263>>,
    <<72273, 72278>>, <<72281, 72283>>, <<72330, 72342>>, <<72344, 72345>>, <<72544, 72544>>,
    <<72546, 72548>>, <<72550, 72550>>, <<72752, 72758>>, <<72760, 72765>>, <<72767, 72767>>,
    <<72850, 72871>>, <<72874, 72880>>, <<72882, 72883>>, <<72885, 72886>>, <<73009, 73014>>,
    <<73018, 73018>>, <<73020, 73021>>, <<73023, 73029>>, <<73031, 73031>>, <<73104, 73105>>,
    <<73109, 73109>>, <<73111, 73111>>, <<73177, 73177>>, <<73459, 73460>>, <<73472, 73473>>,
    <<73526, 73530>>, <<73536, 73536>>, <<73538, 73538>>, <<73562, 73562>>, <<78896, 78912>>,
    <<78919, 78933>>, <<90398, 90409>>, <<90413, 90415>>, <<92912, 92916>>, <<92976, 92982>>,
    <<92992, 92995>>, <<93504, 93506>>, <<93547, 93548>>, <<94031, 94031>>, <<94095, 94111>>,
    <<94176, 94177>>, <<94179, 94180>>, <<94194, 94195>>, <<110576, 110579>>, <<110581, 110587>>,
    <<110589, 110590>>, <<113821, 113822>>, <<113824, 113827>>, <<118528, 118573>>,
    <<118576, 118598>>, <<119143, 119145>>, <<119155, 119170>>, <<119173, 119179>>,
    <<119210, 119213>>, <<119362, 119364>>, <<121344, 121398>>, <<121403, 121452>>,
    <<121461, 121461>>, <<121476, 121476>>, <<121499, 121503>>, <<121505, 121519>>,
    <<122880, 122886>>, <<122888, 122904>>, <<122907, 122913>>, <<122915, 122916>>,
    <<122918, 122922>>, <<122928, 122989>>, <<123023, 123023>>, <<123184, 123197>>,
    <<123566, 123566>>, <<123628, 123631>>, <<124139, 124143>>, <<124398, 124399>>,
    <<124643, 124643>>, <<124646, 124646>>, <<124654, 124655>>, <<124661, 124661>>,
    <<124671, 124671>>, <<125136, 125142>>, <<125252, 125259>>, <<127995, 127999>>,
    <<917505, 917505>>, <<917536, 917631>>, <<917760, 917999>>>>

InRanges(c, ranges) == \E k \in DOMAIN ranges : c >= ranges[k][1] /\ c <= ranges[k][2]

\* core::unicode::conversions::to_lower: the lower-case form of one character
to_lower(c) ==
    IF c < 128 THEN (IF c \in 65..90 THEN <<c + 32>> ELSE <<c>>)
    ELSE IF c = 304 THEN <<105, 775>>
    ELSE LET Lowered(table) ==
                 LET found == {k \in DOMAIN table : /\ c >= table[k][1]
                                                    /\ c <= table[k][2]
                                                    /\ (c - table[k][1]) % table[k][3] = 0}
                 IN  IF found = {} THEN <<c>>
                     ELSE <<c + table[CHOOSE k \in found : TRUE][4]>>
         IN  Lowered(LowercaseTable)

\* case_ignorable_then_cased: the first character that is not Case_Ignorable
\* exists and is Cased
case_ignorable_then_cased(s) ==
    LET rest == {k \in 1..Len(s) : ~InRanges(s[k], CaseIgnorableRanges)}
    IN  rest # {} /\ InRanges(s[Min(rest)], CasedRanges)

\* str::to_lowercase: U+03A3 becomes U+03C2 at the end of a word (after a
\* cased letter and not before one) and U+03C3 elsewhere
to_lowercase(s) ==
    LET Reverse(x) == [k \in 1..Len(x) |-> x[Len(x) + 1 - k]]
        lower(k) == IF s[k] = 931
                    THEN (IF /\ case_ignorable_then_cased(Reverse(SubSeq(s, 1, k - 1)))
                             /\ ~case_ignorable_then_cased(SubSeq(s, k + 1, Len(s)))
                          THEN <<962>> ELSE <<963>>)
                    ELSE to_lower(s[k])
    IN  join([k \in 1..Len(s) |-> lower(k)], <<>>)

(***************************************************************************)
(* Literal texts of the source: keys of the metadata file and fixed words. *)
(***************************************************************************)
\* the keys of a metadata file
Key ==
    [name |-> Str("name"),
     slug |-> Str("slug"),
     api_slug |-> Str("api_slug"),
     url |-> Str("url"),
     issue_date |-> Str("issue_date"),
     issue_location |-> Str("issue_location"),
     rate |-> Str("rate"),
     rate_type |-> Str("rate_type"),
     extra_cost |-> Str("extra_cost"),
     forever |-> Str("forever"),
     year |-> Str("year"),
     type |-> Str("type"),
     series |-> Str("series"),
     background_color |-> Str("background_color"),
     stamp_images |-> Str("stamp_images"),
     sheet_image |-> Str("sheet_image"),
     credits |-> Str("credits"),
     art_director |-> Str("art_director"),
     artist |-> Str("artist"),
     designer |-> Str("designer"),
     typographer |-> Str("typographer"),
     photographer |-> Str("photographer"),
     illustrator |-> Str("illustrator"),
     sources |-> Str("sources"),
     about |-> Str("about"),
     products |-> Str("products"),
     title |-> Str("title"),
     long_title |-> Str("long_title"),
     price |-> Str("price"),
     postal_store_url |-> Str("postal_store_url"),
     stamps_forever_url |-> Str("stamps_forever_url"),
     images |-> Str("images"),
     metadata |-> Str("metadata")]

\* fixed words, separators and indents
Word ==
    [true |-> Str("true"),
     false |-> Str("false"),
     md |-> Str("md"),
     Unknown |-> Str("Unknown"),
     unknown |-> Str("unknown"),
     stamp |-> Str("stamp"),
     card |-> Str("card"),
     envelope |-> Str("envelope"),
     sep |-> Str(" = "),
     item |-> Str("= "),
     tq |-> Str("\"\"\""),
     ind1 |-> Str("  "),
     ind2 |-> Str("    "),
     ind3 |-> Str("      ")]

\* RateType::as_str
RateType == {"Forever", "Postcard", "International", "GlobalForever", "AdditionalOunce", "TwoOunce", "ThreeOunce", "Nonmachineable", "Semipostal", "Definitive", "PriorityMail", "PriorityMailExpress", "PresortedFirstClass", "PresortedStandard", "Nonprofit", "Other"}
RateType_as_str(rt) ==
    CASE rt = "Forever" -> Str("Forever")
      [] rt = "Postcard" -> Str("Postcard")
      [] rt = "International" -> Str("International")
      [] rt = "GlobalForever" -> Str("Global Forever")
      [] rt = "AdditionalOunce" -> Str("Additional Ounce")
      [] rt = "TwoOunce" -> Str("Two Ounce")
      [] rt = "ThreeOunce" -> Str("Three Ounce")
      [] rt = "Nonmachineable" -> Str("Nonmachineable Surcharge")
      [] rt = "Semipostal" -> Str("Semipostal")
      [] rt = "Definitive" -> Str("Definitive")
      [] rt = "PriorityMail" -> Str("Priority Mail")
      [] rt = "PriorityMailExpress" -> Str("Priority Mail Express")
      [] rt = "PresortedFirstClass" -> Str("Presorted First-Class")
      [] rt = "PresortedStandard" -> Str("Presorted Standard")
      [] rt = "Nonprofit" -> Str("Nonprofit")
      [] rt = "Other" -> Str("Other")

\* RateType::from_str
RateType_from_str(s) ==
    IF s = Str("Additional Postage") THEN "AdditionalOunce"
    ELSE IF \E rt \in RateType \ {"Other"} : RateType_as_str(rt) = s
         THEN CHOOSE rt \in RateType \ {"Other"} : RateType_as_str(rt) = s
         ELSE "Other"

(***************************************************************************)
(* Numbers.  An f64 of a stamp is NaN, Infinity or a Decimal, which        *)
(* carries the decimal expansion of the f64: every f64 has a finite one.   *)
(* The two zeros are the Decimals without digits.  The arithmetic on       *)
(* numbers beyond the integers of the language is done on their digits,    *)
(* the most significant first.                                             *)
(***************************************************************************)
IsDigit(c) == c \in 48..57
DigitVal(c) == c - 48

\* Display of an unsigned integer: format!("{}", n)
RECURSIVE ToDec(_)
ToDec(n) == IF n < 10 THEN <<48 + n>> ELSE ToDec(n \div 10) \o <<48 + (n % 10)>>

\* format!("{}", b) for a bool
FormatBool(b) == IF b THEN Word.true ELSE Word.false

RECURSIVE DecVal(_)
DecVal(s) == IF s = <<>> THEN 0 ELSE DecVal(SubSeq(s, 1, Len(s) - 1)) * 10 + DigitVal(s[Len(s)])

AllDigits(s) == s # <<>> /\ \A k \in 1..Len(s) : IsDigit(s[k])

\* u32::MAX, as its digits
U32MaxDigits == Str("4294967295")

RECURSIVE StripZeros(_)
StripZeros(s) == IF Len(s) > 1 /\ Head(s) = Chr["0"] THEN StripZeros(Tail(s)) ELSE s

\* a <= b for two digit texts of the same length
RECURSIVE DigitsLE(_, _)
DigitsLE(a, b) == IF a = <<>> THEN TRUE
                  ELSE IF DigitVal(Head(a)) # DigitVal(Head(b)) THEN DigitVal(Head(a)) < DigitVal(Head(b))
                  ELSE DigitsLE(Tail(a), Tail(b))

\* str::parse::<u32>().ok(): digits with an optional leading '+', at most u32::MAX
ParseU32(s) == LET d == IF s # <<>> /\ Head(s) = Chr["+"] THEN Tail(s) ELSE s
                   z == StripZeros(d)
               IN  IF AllDigits(d) /\ (Len(z) < 10 \/ (Len(z) = 10 /\ DigitsLE(z, U32MaxDigits)))
                   THEN Some(DecVal(z)) ELSE None

\* the number of ASCII digits a text starts with
DigitRun(s) == LET other == {k \in 1..Len(s) : ~IsDigit(s[k])}
               IN  IF other = {} THEN Len(s) ELSE Min(other) - 1

\* the value of a digit text, or cap + 1 when the value is above cap
\* (cap < 10^9)
DecValUpTo(s, cap) ==
    LET z == SubSeq(s, DigitRun([k \in 1..Len(s) |-> IF s[k] = 48 THEN 48 ELSE 0]) + 1, Len(s))
    IN  IF Len(z) > 9 \/ DecVal(z) > cap THEN cap + 1 ELSE DecVal(z)

NaN == [f64 |-> "NaN"]
Infinity(neg) == [f64 |-> "inf", neg |-> neg]
\* the f64 whose decimal expansion is (+/-) int.frac.  neg: the sign; int:
\* the digits before the point, without leading zeros; frac: the digits
\* after the point, without trailing zeros
Decimal(neg, int, frac) == [f64 |-> "dec", neg |-> neg, int |-> int, frac |-> frac]

Zeros(k) == [j \in 1..k |-> 0]

TrimZerosLeft(d) == LET other == {k \in 1..Len(d) : d[k] # 0}
                    IN  IF other = {} THEN <<>> ELSE SubSeq(d, Min(other), Len(d))

TrimZerosRight(d) == LET other == {k \in 1..Len(d) : d[k] # 0}
                     IN  IF other = {} THEN <<>> ELSE SubSeq(d, 1, Max(other))

\* the digits of d + 1
IncDigits(d) == LET other == {k \in 1..Len(d) : d[k] # 9}
                IN  IF other = {} THEN <<1>> \o Zeros(Len(d))
                    ELSE SubSeq(d, 1, Max(other) - 1) \o <<d[Max(other)] + 1>>
                         \o Zeros(Len(d) - Max(other))

\* the digits of d * b, b 2 or 5: a digit times b leaves (b * digit) % 10 in
\* its place and carries (b * digit) \div 10 into the next, and their sum is
\* a digit, so nothing is carried further
Times(d, b) ==
    LET p == [j \in 1..Len(d) + 1 |-> (IF j = 1 THEN 0 ELSE (b * d[j - 1]) % 10)
                                      + (IF j > Len(d) THEN 0 ELSE (b * d[j]) \div 10)]
    IN  IF p[1] = 0 THEN SubSeq(p, 2, Len(p)) ELSE SubSeq(p, 1, Len(p))

\* the digits of d * b^e, b 2 or 5
RECURSIVE MulPow(_, _, _)
MulPow(d, b, e) == IF d = <<>> \/ e = 0 THEN d
                   ELSE IF e = 1 THEN Times(d, b)
                   ELSE MulPow(MulPow(d, b, e \div 2), b, e - e \div 2)

\* the text is the lower-case ASCII word w, whatever the case of its letters
EqIgnoreAsciiCase(s, w) ==
    /\ Len(s) = Len(w)
    /\ \A k \in 1..Len(s) : s[k] = w[k] \/ (s[k] \in 65..90 /\ s[k] + 32 = w[k])

\* the f64 nearest to (+/-) m * 10^(-scale), m a digit text, a tie going to
\* the one with an even significand: the number times a power of two is
\* rounded to a significand of 53 bits (or less, when the exponent is at its
\* lowest, 2^-1074), the result is an infinity from 2^1024 on
DecimalF64(neg, m, scale) ==
    LET P52 == <<4, 5, 0, 3, 5, 9, 9, 6, 2, 7, 3, 7, 0, 4, 9, 6>>
        P53 == <<9, 0, 0, 7, 1, 9, 9, 2, 5, 4, 7, 4, 0, 9, 9, 2>>
        \* the digits before and after the point of d / 10^p
        Whole(d, p) == SubSeq(d, 1, Len(d) - p)
        Frac(d, p) == IF Len(d) >= p THEN SubSeq(d, Len(d) - p + 1, Len(d))
                      ELSE Zeros(p - Len(d)) \o d
        Less(a, b) == \/ Len(a) < Len(b)
                      \/ /\ Len(a) = Len(b)
                         /\ \E j \in 1..Len(a) : /\ a[j] < b[j]
                                                 /\ \A i \in 1..j - 1 : a[i] = b[i]
        \* the integer nearest to d / 10^p, a tie going to the even one
        Nearest(i, f) ==
            IF /\ f # <<>>
               /\ \/ f[1] > 5
                  \/ /\ f[1] = 5
                     /\ \/ \E k \in 2..Len(f) : f[k] # 0
                        \/ i # <<>> /\ i[Len(i)] % 2 = 1
            THEN IncDigits(i) ELSE i
        Round(d, p) == Nearest(Whole(d, p), Frac(d, p))
        \* from 2^53 on: the number n / 10^s is halved q times, to below
        \* 2^53, q0 times at first (nq0 = n * 5^q0) and then qk times more;
        \* mq is the significand
        Significand(q, mq) ==
            IF q > 971 \/ (q = 971 /\ mq = P53) THEN Infinity(neg)
            ELSE Decimal(neg, MulPow(mq, 2, q), <<>>)
        HalvedMore(s, q0, nq0, qk) ==
            Significand(q0 + qk, Round(MulPow(nq0, 5, qk), s + q0 + qk))
        Halved(s, q0, nq0) ==
            HalvedMore(s, q0, nq0,
                       Min({k \in 0..6 : Less(Whole(MulPow(nq0, 5, k), s + q0 + k), P53)}))
        Large(n, s, q0) == Halved(s, q0, MulPow(n, 5, q0))
        \* below 2^53: the number is doubled d times, to 2^52 or above, and
        \* 1074 times at most, d1 times at first (nd1 = n * 2^d1) and then
        \* dk times more; md is the significand, pd / 10^d the value
        Value(d, pd) == Decimal(neg, Whole(pd, d), TrimZerosRight(Frac(pd, d)))
        Quantum(d, md) == Value(d, MulPow(md, 5, d))
        DoubledMore(s, d1, nd1, dk) == Quantum(d1 + dk, Round(MulPow(nd1, 2, dk), s))
        Doubled(s, d1, nd1) ==
            DoubledMore(s, d1, nd1,
                        Min({k \in 0..6 : \/ d1 + k = 1074
                                          \/ ~Less(Whole(MulPow(nd1, 2, k), s), P52)}))
        Small(n, s, d1) == Doubled(s, d1, MulPow(n, 2, d1))
        \* the number is n / 10^s, and 10^(top - 1) <= the number < 10^top
        Scaled(n, s, top) ==
            IF top < 0 - 323 THEN Decimal(neg, <<>>, <<>>)
            ELSE IF top > 310 THEN Infinity(neg)
            ELSE IF ~Less(Whole(n, s), P53)
            THEN Large(n, s, IF ((top - 1) * 3321) \div 1000 > 53
                             THEN ((top - 1) * 3321) \div 1000 - 53 ELSE 0)
            ELSE Small(n, s, IF top <= 0 THEN Min({1074, 53 + ((0 - top) * 3321) \div 1000})
                             ELSE Max({0, 53 - (top * 3322 + 999) \div 1000}))
        Digits(sig) ==
            IF sig = <<>> THEN Decimal(neg, <<>>, <<>>)
            ELSE Scaled(IF scale < 0 THEN sig \o Zeros(0 - scale) ELSE sig,
                        IF scale < 0 THEN 0 ELSE scale, Len(sig) - scale)
    IN  Digits(TrimZerosLeft([k \in 1..Len(m) |-> DigitVal(m[k])]))

\* the f64 of a whole number of hundredths
Hundredths(h) == DecimalF64(h < 0, ToDec(IF h < 0 THEN 0 - h ELSE h), 2)

\* str::parse::<f64>().ok(): an optional sign, then `inf`, `infinity` or `nan`
\* in any case, or digits with an optional point among them (one digit at
\* least) and an optional exponent: `e` or `E`, an optional sign, digits
ParseF64(s) ==
    LET \* the exponent as parse_scientific reads it: a digit is taken in
        \* (exponent = 10 * exponent + digit) while the exponent is below
        \* 0x10000 and passed over from then on.  After its leading zeros the
        \* text is z: five of its digits are below 100000 and always taken,
        \* a sixth is taken when the five are below 0x10000, and no seventh.
        Scientific(z) ==
            LET Taken(five) == IF Len(z) > 5 /\ five < 65536
                               THEN 10 * five + DigitVal(z[6]) ELSE five
            IN  Taken(DecVal(SubSeq(z, 1, Min({5, Len(z)}))))
        \* expd: the digits of the exponent
        Exponent(neg, digits, nf, negexp, expd) ==
            IF ~AllDigits(expd) THEN None
            ELSE Some(DecimalF64(neg, digits,
                                 nf - (IF negexp THEN 0 - 1 ELSE 1)
                                      * Scientific(SubSeq(expd, Len(expd) - Len(TrimZerosLeft(
                                            [k \in 1..Len(expd) |-> DigitVal(expd[k])])) + 1,
                                            Len(expd)))))
        \* r4: the text after the `e`
        Signed(neg, digits, nf, r4, hassign) ==
            Exponent(neg, digits, nf, hassign /\ Head(r4) = Chr["-"],
                     IF hassign THEN Tail(r4) ELSE r4)
        \* digits: the digits of the number, the last nf of them after the
        \* point; r3: the text after them
        Digits(neg, digits, nf, r3) ==
            IF digits = <<>> THEN None
            ELSE IF r3 = <<>> THEN Some(DecimalF64(neg, digits, nf))
            ELSE IF Head(r3) \notin {Chr["e"], Chr["E"]} THEN None
            ELSE Signed(neg, digits, nf, Tail(r3), Len(r3) >= 2 /\ r3[2] \in {Chr["+"], Chr["-"]})
        \* r2: the text after the point, or after the digits when no point
        \* follows them; it starts with nf digits of the number
        Fraction(neg, int, r2, nf) ==
            Digits(neg, int \o SubSeq(r2, 1, nf), nf, SubSeq(r2, nf + 1, Len(r2)))
        \* r1: the text after the digits the number starts with
        Point(neg, int, r1, hasdot) ==
            Fraction(neg, int, IF hasdot THEN Tail(r1) ELSE r1,
                     IF hasdot THEN DigitRun(Tail(r1)) ELSE 0)
        Integer(neg, body, ni) ==
            Point(neg, SubSeq(body, 1, ni), SubSeq(body, ni + 1, Len(body)),
                  ni < Len(body) /\ body[ni + 1] = Chr["."])
        \* body: the text after the sign
        Body(neg, body) ==
            IF EqIgnoreAsciiCase(body, Str("inf")) \/ EqIgnoreAsciiCase(body, Str("infinity"))
            THEN Some(Infinity(neg))
            ELSE IF EqIgnoreAsciiCase(body, Str("nan")) THEN Some(NaN)
            ELSE Integer(neg, body, DigitRun(body))
        Start(hassign) == Body(hassign /\ Head(s) = Chr["-"], IF hassign THEN Tail(s) ELSE s)
    IN  Start(s # <<>> /\ Head(s) \in {Chr["+"], Chr["-"]})

\* format!("{:.2}", rate): the value of the f64 rounded to the nearest
\* hundredth, a tie going to the hundredth with an even last digit
FormatRate2(h) ==
    IF h.f64 = "NaN" THEN Str("NaN")
    ELSE IF h.f64 = "inf" THEN (IF h.neg THEN Str("-") ELSE <<>>) \o Str("inf")
    ELSE LET hs == h.int \o SubSeq(h.frac \o Zeros(2), 1, 2)
             rest == SubSeq(h.frac, 3, Len(h.frac))
             up == /\ rest # <<>>
                   /\ \/ rest[1] > 5
                      \/ rest[1] = 5 /\ (Len(rest) > 1 \/ hs[Len(hs)] % 2 = 1)
             rounded == TrimZerosLeft(IF up THEN IncDigits(hs) ELSE hs)
             d == IF Len(rounded) < 3 THEN Zeros(3 - Len(rounded)) \o rounded ELSE rounded
             text == [k \in 1..Len(d) |-> 48 + d[k]]
         IN  (IF h.neg THEN Str("-") ELSE <<>>)
             \o SubSeq(text, 1, Len(text) - 2) \o Str(".") \o SubSeq(text, Len(text) - 1, Len(text))

(***************************************************************************)
(* conl_ser.rs: the serializer.                                            *)
(***************************************************************************)
\* the condition of escape_value under which the value is quoted
\* NeedsQuoting without the test for a leading double quote
NeedsQuotingNoLeadingQuote(s) ==
    \/ s = <<>>
    \/ starts_with(s, <<SP>>)
    \/ ends_with(s, <<SP>>)
    \/ contains(s, <<SEMI>>)
    \/ contains(s, <<EQ>>)
    \/ contains(s, <<LF>>)
    \/ contains(s, <<CR>>)

NeedsQuoting(s) ==
    \/ s = <<>>
    \/ starts_with(s, <<SP>>)
    \/ ends_with(s, <<SP>>)
    \/ starts_with(s, <<DQ>>)
    \/ contains(s, <<SEMI>>)
    \/ contains(s, <<EQ>>)
    \/ contains(s, <<LF>>)
    \/ contains(s, <<CR>>)

\* EscapeChain with the backslash replaced last instead of first
EscapeChainBackslashLast(s) ==
    replace(replace(replace(replace(replace(s, DQ, <<BS, DQ>>), LF, <<BS, Chr["n"]>>),
                            CR, <<BS, Chr["r"]>>), TAB, <<BS, Chr["t"]>>), BS, <<BS, BS>>)

\* the chain of replace calls of escape_value, in the order of the source
EscapeChain(s) ==
    replace(replace(replace(replace(replace(s, BS, <<BS, BS>>), DQ, <<BS, DQ>>),
                            LF, <<BS, Chr["n"]>>), CR, <<BS, Chr["r"]>>), TAB, <<BS, Chr["t"]>>)

escape_value(s) == IF NeedsQuoting(s) THEN <<DQ>> \o EscapeChain(s) \o <<DQ>> ELSE s

\* one pushed piece per line of s.lines(): two spaces, the line, a newline
RECURSIVE MultilineBody(_)
MultilineBody(ls) == IF ls = <<>> THEN <<>>
                     ELSE Word.ind1 \o Head(ls) \o <<LF>> \o MultilineBody(Tail(ls))

format_multiline(s, hint) ==
    LET hint_str == IF IsSome(hint) THEN hint.v ELSE <<>>
    IN  Word.tq \o hint_str \o <<LF>> \o MultilineBody(str_lines(s))

StampType_as_str(t) == CASE t = "Stamp" -> Word.stamp
                         [] t = "Card" -> Word.card
                         [] t = "Envelope" -> Word.envelope

Credits_is_empty(c) ==
    /\ ~IsSome(c.art_director)
    /\ ~IsSome(c.artist)
    /\ ~IsSome(c.designer)
    /\ ~IsSome(c.typographer)
    /\ ~IsSome(c.photographer)
    /\ ~IsSome(c.illustrator)

\* "<indent><key> = <value>" as one pushed line
KV(ind, k, v) == ind \o k \o Word.sep \o v

\* OptKV that writes the key with an empty value for a field that is None
OptKVEmitsNone(ind, k, o, esc) ==
    IF IsSome(o) THEN <<KV(ind, k, IF esc THEN escape_value(o.v) ELSE o.v)>> ELSE <<KV(ind, k, <<>>)>>

\* a line pushed only when the optional field is Some
OptKV(ind, k, o, esc) == IF IsSome(o) THEN <<KV(ind, k, IF esc THEN escape_value(o.v) ELSE o.v)>> ELSE <<>>

RECURSIVE ItemLines(_, _)
ItemLines(ind, imgs) == IF imgs = <<>> THEN <<>>
                        ELSE <<ind \o Word.item \o Head(imgs)>> \o ItemLines(ind, Tail(imgs))

CreditsLines(c) ==
    IF Credits_is_empty(c) THEN <<>>
    ELSE <<Key.credits>>
         \o OptKV(Word.ind1, Key.art_director, c.art_director, TRUE)
         \o OptKV(Word.ind1, Key.artist, c.artist, TRUE)
         \o OptKV(Word.ind1, Key.designer, c.designer, TRUE)
         \o OptKV(Word.ind1, Key.typographer, c.typographer, TRUE)
         \o OptKV(Word.ind1, Key.photographer, c.photographer, TRUE)
         \o OptKV(Word.ind1, Key.illustrator, c.illustrator, TRUE)

ProductLines(p) ==
    <<Word.ind1 \o <<EQ>>>>
    \o <<KV(Word.ind2, Key.title, escape_value(p.title))>>
    \o OptKV(Word.ind2, Key.long_title, p.long_title, TRUE)
    \o OptKV(Word.ind2, Key.price, p.price, TRUE)
    \o OptKV(Word.ind2, Key.postal_store_url, p.postal_store_url, FALSE)
    \o OptKV(Word.ind2, Key.stamps_forever_url, p.stamps_forever_url, FALSE)
    \o (IF p.images # <<>> THEN <<Word.ind2 \o Key.images>> \o ItemLines(Word.ind3, p.images) ELSE <<>>)

RECURSIVE ProductsLines(_)
ProductsLines(ps) == IF ps = <<>> THEN <<>> ELSE ProductLines(Head(ps)) \o ProductsLines(Tail(ps))

\* the vector `lines` that to_conl builds
ToConlLines(m) ==
    <<KV(<<>>, Key.name, escape_value(m.name)),
      KV(<<>>, Key.slug, escape_value(m.slug)),
      KV(<<>>, Key.api_slug, escape_value(m.api_slug)),
      KV(<<>>, Key.url, escape_value(m.url))>>
    \o OptKV(<<>>, Key.issue_date, m.issue_date, FALSE)
    \o OptKV(<<>>, Key.issue_location, m.issue_location, TRUE)
    \o (IF IsSome(m.rate) THEN <<KV(<<>>, Key.rate, FormatRate2(m.rate.v))>> ELSE <<>>)
    \o (IF IsSome(m.rate_type) THEN <<KV(<<>>, Key.rate_type, RateType_as_str(m.rate_type.v))>> ELSE <<>>)
    \o <<KV(<<>>, Key.forever, FormatBool(m.forever)),
         KV(<<>>, Key.year, ToDec(m.year))>>
    \o (IF m.stamp_type # "Stamp" THEN <<KV(<<>>, Key.type, StampType_as_str(m.stamp_type))>> ELSE <<>>)
    \o OptKV(<<>>, Key.series, m.series, TRUE)
    \o OptKV(<<>>, Key.background_color, m.background_color, FALSE)
    \o (IF m.stamp_images # <<>> THEN <<Key.stamp_images>> \o ItemLines(Word.ind1, m.stamp_images) ELSE <<>>)
    \o OptKV(<<>>, Key.sheet_image, m.sheet_image, FALSE)
    \o CreditsLines(m.credits)
    \o (IF IsSome(m.about) THEN <<KV(<<>>, Key.about, format_multiline(m.about.v, Some(Word.md)))>> ELSE <<>>)
    \o (IF m.products # <<>> THEN <<Key.products>> \o ProductsLines(m.products) ELSE <<>>)

to_conl(m) == join(ToConlLines(m), <<LF>>) \o <<LF>>

(***************************************************************************)
(* types.rs: the keys of the fields of the three structs, in the order of  *)
(* declaration (`stamp_type` is written under the key `type`).             *)
(***************************************************************************)
StampMetadataFields ==
    <<Key.name, Key.slug, Key.api_slug, Key.url, Key.year, Key.issue_date, Key.issue_location,
      Key.rate, Key.rate_type, Key.extra_cost, Key.forever, Key.type, Key.series,
      Key.stamp_images, Key.sheet_image, Key.background_color, Key.credits, Key.about,
      Key.products>>

CreditsFields ==
    <<Key.art_director, Key.artist, Key.designer, Key.typographer, Key.photographer,
      Key.illustrator>>

ProductFields ==
    <<Key.title, Key.long_title, Key.price, Key.postal_store_url, Key.stamps_forever_url,
      Key.images, Key.metadata>>

(***************************************************************************)
(* generate.rs: ConlValue and the BTreeMap the parser fills.               *)
(***************************************************************************)
ConlString(s) == [tag |-> "String", v |-> s]
ConlArray(a) == [tag |-> "Array", v |-> a]
ConlObject(o) == [tag |-> "Object", v |-> o]
ConlObjectArray(oa) == [tag |-> "ObjectArray", v |-> oa]

EmptyMap == <<>>

\* MapInsert that keeps the entry a key already has
MapInsertKeepFirst(m, k, v) == [x \in (DOMAIN m) \cup {k} |-> IF x \in DOMAIN m THEN m[x] ELSE v]

\* BTreeMap::insert: a later insert of the same key replaces the entry
MapInsert(m, k, v) == [x \in (DOMAIN m) \cup {k} |-> IF x = k THEN v ELSE m[x]]

\* BTreeMap::get
MapGet(m, k) == IF k \in DOMAIN m THEN Some(m[k]) ELSE None

as_str(o) == IF IsSome(o) /\ o.v.tag = "String" THEN Some(o.v.v) ELSE None
as_array(o) == IF IsSome(o) /\ o.v.tag = "Array" THEN Some(o.v.v) ELSE None
as_object(o) == IF IsSome(o) /\ o.v.tag = "Object" THEN Some(o.v.v) ELSE None
as_object_array(o) == IF IsSome(o) /\ o.v.tag = "ObjectArray" THEN Some(o.v.v) ELSE None

unwrap_or(o, d) == IF IsSome(o) THEN o.v ELSE d

(***************************************************************************)
(* State.                                                                  *)
(***************************************************************************)
VARIABLES
    origin,      \* "record": the text comes from to_conl; "text": a file as found on disk
    meta,        \* the StampMetadata given to to_conl (None for a file found on disk)
    content,     \* the text handed to parse_conl
    lines,       \* parse_conl: content.lines()
    i,           \* parse_conl: index of the current line, 0-based
    result,      \* parse_conl: the top-level map
    pc,          \* position: which loop of parse_conl runs, or the stage around it
    key,         \* key of the multi-line value or of the block being read
    multiline,   \* text collected by the multi-line loop
    objects,     \* tables collected by the table-array loop
    obj,         \* table being filled (table loop, or one element of a table-array)
    nested_key,  \* key of a nested array
    nested_arr,  \* items of a nested array
    arr,         \* items of a top-level array
    ret,         \* what parse_conl returned
    stamp,       \* what load_stamp built from the map
    out,         \* to_conl of the loaded record
    files,       \* the rate files: for each name the entries serde_conl::from_str returns
    postal,      \* the PostalRates built by PostalRates::load
    call,        \* the last call of a lookup or of a helper of the scraper, with its arguments
    answer       \* what that call returned

vars == <<origin, meta, content, lines, i, result, pc, key, multiline, objects, obj,
          nested_key, nested_arr, arr, ret, stamp, out, files, postal, call, answer>>

side == <<files, postal, call, answer>>
input == <<origin, meta, content, side>>
blockVars == <<key, multiline, objects, obj, nested_key, nested_arr, arr>>
after == <<stamp, out>>

n == Len(lines)

\* lines[i] of the source (i is 0-based there)
Line(idx) == lines[idx + 1]

IsBlank(l) == trim(l) = <<>>

\* `while i < lines.len()`
LoopGuard(idx, len) == idx < len

\* the lookahead without its length test
LookaheadUnguarded(idx, len) == TRUE

\* `if i < lines.len()` before the lookahead at the line after a bare key
LookaheadGuard(idx, len) == idx < len

\* a step that leaves the index where it is
AdvanceNot(idx) == idx

\* `i += 1`
Advance(idx) == idx + 1

\* an index past the end of `lines` aborts the program
Panic == /\ pc' = "panic"
         /\ UNCHANGED <<input, lines, i, result, blockVars, ret, after>>

\* the test that also ends a block at a line shaped like `key = value`
Dedent1OrNewKey(l) ==
    (~starts_with(l, Word.ind1) /\ ~IsBlank(l)) \/ IsSome(split_once(trim(l), Word.sep))

\* the test that ends a block at depth 1: a non-blank line without two leading spaces
Dedent1(l) == ~starts_with(l, Word.ind1) /\ ~IsBlank(l)

(***************************************************************************)
(* parse_conl, one loop iteration per step.                                *)
(***************************************************************************)
ParseStart ==
    /\ pc = "parse"
    /\ lines' = str_lines(content)
    /\ i' = 0
    /\ result' = EmptyMap
    /\ pc' = "top"
    /\ UNCHANGED <<input, blockVars, ret, after>>

\* NextShape that tests for an item before it tests for the lone `=`
NextShapeItemFirst(idx) ==
    IF LookaheadGuard(idx, n)
    THEN LET next_line == trim(Line(idx))
         IN  IF starts_with(next_line, <<EQ>>) THEN "array"
             ELSE IF next_line = <<EQ>> THEN "objarray"
             ELSE "object"
    ELSE "object"

\* the shape decided by the line after a bare key
NextShape(idx) ==
    IF LookaheadGuard(idx, n)
    THEN LET next_line == trim(Line(idx))
         IN  IF next_line = <<EQ>> THEN "objarray"
             ELSE IF starts_with(next_line, Word.item) THEN "array"
             ELSE "object"
    ELSE "object"

TopStep ==
    /\ pc = "top"
    /\ IF ~LoopGuard(i, n)
       THEN /\ pc' = "done"
            /\ ret' = [tag |-> "Ok"]
            /\ UNCHANGED <<input, lines, i, result, blockVars, after>>
       ELSE IF ~(i < n) THEN Panic
       ELSE LET trimmed == trim(Line(i))
                kv == split_once(trimmed, Word.sep)
            IN  IF trimmed = <<>>
                THEN /\ i' = Advance(i)
                     /\ UNCHANGED <<input, lines, result, pc, blockVars, ret, after>>
                ELSE IF IsSome(kv)
                THEN LET k == trim(kv.v[1])
                         value == trim(kv.v[2])
                     IN  IF starts_with(value, Word.tq)
                         THEN /\ key' = k
                              /\ multiline' = <<>>
                              /\ i' = Advance(i)
                              /\ pc' = "multiline"
                              /\ UNCHANGED <<input, lines, result, objects, obj, nested_key,
                                             nested_arr, arr, ret, after>>
                         ELSE /\ result' = MapInsert(result, k, ConlString(value))
                              /\ i' = Advance(i)
                              /\ UNCHANGED <<input, lines, pc, blockVars, ret, after>>
                ELSE IF ~contains(trimmed, Word.sep) /\ ~starts_with(trimmed, <<EQ>>)
                THEN IF LookaheadGuard(i + 1, n) /\ ~(i + 1 < n) THEN Panic
                     ELSE /\ key' = trimmed
                          /\ i' = Advance(i)
                          /\ pc' = NextShape(i + 1)
                          /\ objects' = <<>>
                          /\ arr' = <<>>
                          /\ obj' = EmptyMap
                          /\ UNCHANGED <<input, lines, result, multiline, nested_key,
                                         nested_arr, ret, after>>
                ELSE /\ i' = Advance(i)
                     /\ UNCHANGED <<input, lines, result, pc, blockVars, ret, after>>

MultilineStep ==
    /\ pc = "multiline"
    /\ IF LoopGuard(i, n) /\ ~(i < n) THEN Panic
       ELSE IF ~LoopGuard(i, n) \/ Dedent1(Line(i))
       THEN /\ result' = MapInsert(result, key, ConlString(multiline))
            /\ pc' = "top"
            /\ UNCHANGED <<input, lines, i, blockVars, ret, after>>
       ELSE /\ multiline' = (IF multiline # <<>> THEN multiline \o <<LF>> ELSE multiline)
                            \o trim(Line(i))
            /\ i' = Advance(i)
            /\ UNCHANGED <<input, lines, result, pc, key, objects, obj, nested_key,
                           nested_arr, arr, ret, after>>

ArrayStep ==
    /\ pc = "array"
    /\ IF LoopGuard(i, n) /\ ~(i < n) THEN Panic
       ELSE IF ~LoopGuard(i, n) \/ Dedent1(Line(i))
       THEN /\ result' = MapInsert(result, key, ConlArray(arr))
            /\ pc' = "top"
            /\ UNCHANGED <<input, lines, i, blockVars, ret, after>>
       ELSE LET val == strip_prefix(trim(Line(i)), Word.item)
            IN  /\ arr' = IF IsSome(val) THEN Append(arr, val.v) ELSE arr
                /\ i' = Advance(i)
                /\ UNCHANGED <<input, lines, result, pc, key, multiline, objects, obj,
                               nested_key, nested_arr, ret, after>>

ObjectStep ==
    /\ pc = "object"
    /\ IF LoopGuard(i, n) /\ ~(i < n) THEN Panic
       ELSE IF ~LoopGuard(i, n) \/ Dedent1(Line(i))
       THEN /\ result' = MapInsert(result, key, ConlObject(obj))
            /\ pc' = "top"
            /\ UNCHANGED <<input, lines, i, blockVars, ret, after>>
       ELSE LET obj_trimmed == trim(Line(i))
                kv == split_once(obj_trimmed, Word.sep)
            IN  IF obj_trimmed = <<>>
                THEN /\ i' = Advance(i)
                     /\ UNCHANGED <<input, lines, result, pc, blockVars, ret, after>>
                ELSE IF IsSome(kv)
                THEN /\ obj' = MapInsert(obj, trim(kv.v[1]), ConlString(trim(kv.v[2])))
                     /\ i' = Advance(i)
                     /\ UNCHANGED <<input, lines, result, pc, key, multiline, objects,
                                    nested_key, nested_arr, arr, ret, after>>
                ELSE IF ~contains(obj_trimmed, Word.sep)
                THEN /\ nested_key' = obj_trimmed
                     /\ nested_arr' = <<>>
                     /\ i' = Advance(i)
                     /\ pc' = "object_nested"
                     /\ UNCHANGED <<input, lines, result, key, multiline, objects, obj,
                                    arr, ret, after>>
                ELSE /\ i' = Advance(i)
                     /\ UNCHANGED <<input, lines, result, pc, blockVars, ret, after>>

\* the nested array of a table: ends at the first line without four leading spaces
ObjectNestedStep ==
    /\ pc = "object_nested"
    /\ IF LoopGuard(i, n) /\ ~(i < n) THEN Panic
       ELSE IF ~LoopGuard(i, n) \/ ~starts_with(Line(i), Word.ind2)
       THEN /\ obj' = MapInsert(obj, nested_key, ConlArray(nested_arr))
            /\ pc' = "object"
            /\ UNCHANGED <<input, lines, i, result, key, multiline, objects, nested_key,
                           nested_arr, arr, ret, after>>
       ELSE LET val == strip_prefix(trim(Line(i)), Word.item)
            IN  /\ nested_arr' = IF IsSome(val) THEN Append(nested_arr, val.v) ELSE nested_arr
                /\ i' = Advance(i)
                /\ UNCHANGED <<input, lines, result, pc, key, multiline, objects, obj,
                               nested_key, arr, ret, after>>

\* the outer loop of a table-array
ObjArrayStep ==
    /\ pc = "objarray"
    /\ IF LoopGuard(i, n) /\ ~(i < n) THEN Panic
       ELSE IF ~LoopGuard(i, n) \/ Dedent1(Line(i))
       THEN /\ result' = MapInsert(result, key, ConlObjectArray(objects))
            /\ pc' = "top"
            /\ UNCHANGED <<input, lines, i, blockVars, ret, after>>
       ELSE IF trim(Line(i)) = <<EQ>>
       THEN /\ obj' = EmptyMap
            /\ i' = Advance(i)
            /\ pc' = "objarray_obj"
            /\ UNCHANGED <<input, lines, result, key, multiline, objects, nested_key,
                           nested_arr, arr, ret, after>>
       ELSE /\ i' = Advance(i)
            /\ UNCHANGED <<input, lines, result, pc, blockVars, ret, after>>

\* `if !obj.is_empty() { objects.push(obj) }`
PushObject(objs, o) == IF o # EmptyMap THEN Append(objs, o) ELSE objs

\* the loop that fills one element of a table-array
ObjArrayObjStep ==
    /\ pc = "objarray_obj"
    /\ IF LoopGuard(i, n) /\ ~(i < n) THEN Panic
       ELSE IF \/ ~LoopGuard(i, n)
               \/ /\ (~starts_with(Line(i), Word.ind2) \/ IsBlank(Line(i)))
                  /\ (trim(Line(i)) = <<EQ>> \/ Dedent1(Line(i)))
       THEN /\ objects' = PushObject(objects, obj)
            /\ pc' = "objarray"
            /\ UNCHANGED <<input, lines, i, result, key, multiline, obj, nested_key,
                           nested_arr, arr, ret, after>>
       ELSE IF ~starts_with(Line(i), Word.ind2) \/ IsBlank(Line(i))
       THEN /\ i' = Advance(i)
            /\ UNCHANGED <<input, lines, result, pc, blockVars, ret, after>>
       ELSE LET obj_trimmed == trim(Line(i))
                kv == split_once(obj_trimmed, Word.sep)
            IN  IF IsSome(kv)
                THEN /\ obj' = MapInsert(obj, trim(kv.v[1]), ConlString(trim(kv.v[2])))
                     /\ i' = Advance(i)
                     /\ UNCHANGED <<input, lines, result, pc, key, multiline, objects,
                                    nested_key, nested_arr, arr, ret, after>>
                ELSE IF ~contains(obj_trimmed, Word.sep) /\ ~starts_with(obj_trimmed, <<EQ>>)
                THEN /\ nested_key' = obj_trimmed
                     /\ nested_arr' = <<>>
                     /\ i' = Advance(i)
                     /\ pc' = "objarray_nested"
                     /\ UNCHANGED <<input, lines, result, key, multiline, objects, obj,
                                    arr, ret, after>>
                ELSE /\ i' = Advance(i)
                     /\ UNCHANGED <<input, lines, result, pc, blockVars, ret, after>>

\* the nested array of a table-array element: ends at the first line without six spaces
ObjArrayNestedStep ==
    /\ pc = "objarray_nested"
    /\ IF LoopGuard(i, n) /\ ~(i < n) THEN Panic
       ELSE IF ~LoopGuard(i, n) \/ ~starts_with(Line(i), Word.ind3)
       THEN /\ obj' = MapInsert(obj, nested_key, ConlArray(nested_arr))
            /\ pc' = "objarray_obj"
            /\ UNCHANGED <<input, lines, i, result, key, multiline, objects, nested_key,
                           nested_arr, arr, ret, after>>
       ELSE LET val == strip_prefix(trim(Line(i)), Word.item)
            IN  /\ nested_arr' = IF IsSome(val) THEN Append(nested_arr, val.v) ELSE nested_arr
                /\ i' = Advance(i)
                /\ UNCHANGED <<input, lines, result, pc, key, multiline, objects, obj,
                               nested_key, arr, ret, after>>

(***************************************************************************)
(* generate.rs: load_stamp, the mapping of the parsed map to a Stamp.      *)
(***************************************************************************)
\* .and_then(|s| s.parse().ok()) on an optional text
AndThenParseU32(o) == IF IsSome(o) THEN ParseU32(o.v) ELSE None
AndThenParseF64(o) == IF IsSome(o) THEN ParseF64(o.v) ELSE None

get_str(m, k) == as_str(MapGet(m, k))

LoadCredits(data) ==
    LET co == as_object(MapGet(data, Key.credits))
    IN  IF IsSome(co)
        THEN [art_director |-> get_str(co.v, Key.art_director),
              artist       |-> get_str(co.v, Key.artist),
              designer     |-> get_str(co.v, Key.designer),
              typographer  |-> get_str(co.v, Key.typographer),
              photographer |-> get_str(co.v, Key.photographer),
              illustrator  |-> get_str(co.v, Key.illustrator),
              sources      |-> unwrap_or(as_array(MapGet(co.v, Key.sources)), <<>>)]
        ELSE [art_director |-> None, artist |-> None, designer |-> None, typographer |-> None,
              photographer |-> None, illustrator |-> None, sources |-> <<>>]

\* the six fields of ProductMetadata, read when `metadata` is a table
LoadProductMetadata(mo) ==
    [format   |-> unwrap_or(get_str(mo, Str("format")), <<>>),
     quantity |-> AndThenParseU32(get_str(mo, Str("quantity"))),
     size     |-> get_str(mo, Str("size")),
     style    |-> get_str(mo, Str("style")),
     closure  |-> get_str(mo, Str("closure")),
     sided    |-> AndThenParseU32(get_str(mo, Str("sided")))]

LoadProduct(prod) ==
    [title              |-> unwrap_or(get_str(prod, Key.title), <<>>),
     long_title         |-> get_str(prod, Key.long_title),
     price              |-> get_str(prod, Key.price),
     postal_store_url   |-> get_str(prod, Key.postal_store_url),
     stamps_forever_url |-> get_str(prod, Key.stamps_forever_url),
     images             |-> unwrap_or(as_array(MapGet(prod, Key.images)), <<>>),
     metadata           |-> LET mo == as_object(MapGet(prod, Key.metadata))
                             IN  IF IsSome(mo) THEN Some(LoadProductMetadata(mo.v)) ELSE None]

\* Product::sort_key of generate.rs, as one number (style, closure, size)
sort_key(p) ==
    IF IsSome(p.metadata) /\ p.metadata.v.format = Word.envelope
    THEN LET st == p.metadata.v.style
             cl == p.metadata.v.closure
             sz == p.metadata.v.size
             style_order == IF st = Some(Str("regular")) THEN 0
                            ELSE IF st = Some(Str("regular-security")) THEN 1
                            ELSE IF st = Some(Str("window")) THEN 2
                            ELSE IF st = Some(Str("window-security")) THEN 3
                            ELSE 4
             closure_order == IF cl = Some(Str("peel-and-stick")) THEN 0
                              ELSE IF cl = Some(Str("gummed")) THEN 1
                              ELSE 2
             size_order == IF sz = Some(Str("#6-3/4")) THEN 0
                           ELSE IF sz = Some(Str("#9")) THEN 1
                           ELSE IF sz = Some(Str("#10")) THEN 2
                           ELSE 3
         IN  (style_order * 256 + closure_order) * 256 + size_order
    ELSE (255 * 256 + 255) * 256 + 255

\* Vec::sort_by_key is stable: an element goes after the elements with a key <= its own
RECURSIVE InsertByKey(_, _)
InsertByKey(sorted, p) ==
    IF sorted = <<>> THEN <<p>>
    ELSE IF sort_key(sorted[Len(sorted)]) <= sort_key(p) THEN Append(sorted, p)
    ELSE Append(InsertByKey(SubSeq(sorted, 1, Len(sorted) - 1), p), sorted[Len(sorted)])

RECURSIVE SortProducts(_)
SortProducts(ps) == IF ps = <<>> THEN <<>>
                    ELSE InsertByKey(SortProducts(SubSeq(ps, 1, Len(ps) - 1)), ps[Len(ps)])

\* LoadForever with the default of a missing flag turned to false
LoadForeverDefaultFalse(data) ==
    LET f == get_str(data, Key.forever)
    IN  unwrap_or(IF IsSome(f) THEN Some(f.v = Word.true) ELSE None, FALSE)

\* the `forever` flag: .get("forever").and_then(as_str).map(|s| s == "true").unwrap_or(true)
LoadForever(data) ==
    LET f == get_str(data, Key.forever)
    IN  unwrap_or(IF IsSome(f) THEN Some(f.v = Word.true) ELSE None, TRUE)

load_stamp(data) ==
    LET slug == unwrap_or(get_str(data, Key.slug), Word.unknown)
        pa == as_object_array(MapGet(data, Key.products))
    IN  [name             |-> unwrap_or(get_str(data, Key.name), Word.Unknown),
         slug             |-> slug,
         api_slug         |-> unwrap_or(get_str(data, Key.api_slug), slug),
         url              |-> unwrap_or(get_str(data, Key.url), <<>>),
         year             |-> unwrap_or(AndThenParseU32(get_str(data, Key.year)), 0),
         issue_date       |-> get_str(data, Key.issue_date),
         rate             |-> AndThenParseF64(get_str(data, Key.rate)),
         rate_type        |-> get_str(data, Key.rate_type),
         extra_cost       |-> AndThenParseF64(get_str(data, Key.extra_cost)),
         forever          |-> LoadForever(data),
         stamp_type       |-> unwrap_or(get_str(data, Key.type), Word.stamp),
         series           |-> get_str(data, Key.series),
         stamp_images     |-> unwrap_or(as_array(MapGet(data, Key.stamp_images)), <<>>),
         sheet_image      |-> get_str(data, Key.sheet_image),
         credits          |-> LoadCredits(data),
         about            |-> get_str(data, Key.about),
         products         |-> SortProducts(IF IsSome(pa) THEN [k \in 1..Len(pa.v) |-> LoadProduct(pa.v[k])]
                                              ELSE <<>>),
         background_color |-> get_str(data, Key.background_color)]

(***************************************************************************)
(* The record that to_conl takes, rebuilt from a loaded Stamp field by     *)
(* field (types.rs: RateType::from_str, StampType::from_str).              *)
(***************************************************************************)
StampType_from_str(s) == IF to_lowercase(s) = Word.card THEN "Card"
                         ELSE IF to_lowercase(s) = Word.envelope THEN "Envelope"
                         ELSE "Stamp"

ProductToMetadata(p) ==
    [title              |-> p.title,
     long_title         |-> p.long_title,
     price              |-> p.price,
     postal_store_url   |-> p.postal_store_url,
     stamps_forever_url |-> p.stamps_forever_url,
     images             |-> p.images,
     metadata           |-> p.metadata]

StampToMetadata(st) ==
    [name             |-> st.name,
     slug             |-> st.slug,
     api_slug         |-> st.api_slug,
     url              |-> st.url,
     year             |-> st.year,
     issue_date       |-> st.issue_date,
     issue_location   |-> None,
     rate             |-> st.rate,
     rate_type        |-> IF IsSome(st.rate_type) THEN Some(RateType_from_str(st.rate_type.v))
                          ELSE None,
     extra_cost       |-> st.extra_cost,
     forever          |-> st.forever,
     stamp_type       |-> StampType_from_str(st.stamp_type),
     series           |-> st.series,
     stamp_images     |-> st.stamp_images,
     sheet_image      |-> st.sheet_image,
     background_color |-> st.background_color,
     credits          |-> [art_director |-> st.credits.art_director,
                           artist       |-> st.credits.artist,
                           designer     |-> st.credits.designer,
                           typographer  |-> st.credits.typographer,
                           photographer |-> st.credits.photographer,
                           illustrator  |-> st.credits.illustrator],
     about            |-> st.about,
     products         |-> [k \in 1..Len(st.products) |-> ProductToMetadata(st.products[k])]]

(***************************************************************************)
(* rates.rs: RateHistory and PostalRates.  A NaiveDate is the number       *)
(* year * 512 + month * 32 + day, which orders dates as NaiveDate does     *)
(* for every year NaiveDate has; a rate (f64) is counted in hundredths.    *)
(***************************************************************************)
Ok(x) == [tag |-> "Ok", v |-> x]
Err(m) == [tag |-> "Err", msg |-> m]
IsOk(r) == r.tag = "Ok"

from_ymd(y, m, d) == y * 512 + m * 32 + d

IsLeapYear(y) == (y % 4 = 0 /\ y % 100 # 0) \/ y % 400 = 0

DaysInMonth(y, m) == IF m = 2 THEN (IF IsLeapYear(y) THEN 29 ELSE 28)
                     ELSE IF m \in {4, 6, 9, 11} THEN 30
                     ELSE 31

\* chrono scan::number(s, 1, max): the digits (at least one, at most max) the
\* text starts with, and the text after them
ScanNumber(s, max) ==
    LET Take(taken) == IF taken = 0 THEN None
                       ELSE Some(<<SubSeq(s, 1, taken), SubSeq(s, taken + 1, Len(s))>>)
    IN  Take(Min({DigitRun(s), max}))

\* NaiveDate::parse_from_str(s, "%Y-%m-%d").ok().  Each of the three numbers
\* may follow white space; the year takes a sign and then any number of
\* digits, or no sign and at most four digits; month and day take at most two
\* digits; each `-` stands where the number before it ends; nothing follows
\* the day; the numbers name a day of a year between NaiveDate::MIN and MAX.
ParseDate(s) ==
    LET \* the numbers name a day
        Date(y, m, d) == IF /\ y \in (0 - 262143)..262142
                            /\ m \in 1..12
                            /\ d \in 1..DaysInMonth(y, m)
                         THEN Some(from_ymd(y, m, d))
                         ELSE None
        Year(negative, a) == IF negative THEN 0 - a ELSE a
        \* dn: the day and what follows it
        Day(negative, yt, mt, dn) ==
            IF ~IsSome(dn) \/ dn.v[2] # <<>> THEN None
            ELSE Date(Year(negative, DecValUpTo(yt, 262143)), DecVal(mt), DecVal(dn.v[1]))
        \* r2: the text after the second `-`
        AfterMonth(negative, yt, mt, r2) ==
            IF ~IsSome(r2) THEN None
            ELSE Day(negative, yt, mt, ScanNumber(trim_start(r2.v), 2))
        \* mn: the month and what follows it
        Month(negative, yt, mn) ==
            IF ~IsSome(mn) THEN None
            ELSE AfterMonth(negative, yt, mn.v[1], strip_prefix(mn.v[2], Str("-")))
        \* r1: the text after the first `-`
        AfterYear(negative, yt, r1) ==
            IF ~IsSome(r1) THEN None
            ELSE Month(negative, yt, ScanNumber(trim_start(r1.v), 2))
        \* yn: the year and what follows it
        Signed(negative, yn) ==
            IF ~IsSome(yn) THEN None
            ELSE AfterYear(negative, yn.v[1], strip_prefix(yn.v[2], Str("-")))
        Trimmed(s1) ==
            IF s1 # <<>> /\ Head(s1) \in {Chr["-"], Chr["+"]}
            THEN Signed(Head(s1) = Chr["-"], ScanNumber(Tail(s1), Len(s1)))
            ELSE Signed(FALSE, ScanNumber(s1, 4))
    IN  Trimmed(trim_start(s))

\* a < b in the order of String: the UTF-8 bytes compare as the code points
\* do, a proper prefix first
RECURSIVE StrLess(_, _)
StrLess(a, b) == IF b = <<>> THEN FALSE
                 ELSE IF a = <<>> THEN TRUE
                 ELSE IF Head(a) # Head(b) THEN Head(a) < Head(b)
                 ELSE StrLess(Tail(a), Tail(b))

\* BTreeMap::into_iter: the entries in ascending order of their keys
IntoIter(entries) ==
    LET D == DOMAIN entries
    IN  [j \in 1..Cardinality(D) |->
            LET k == CHOOSE k \in D : Cardinality({x \in D : StrLess(x, k)}) = j - 1
            IN  <<k, entries[k]>>]

\* .filter_map(|(date_str, rate)| Some((parse(date_str).ok()?, rate)))
RECURSIVE FilterMapDates(_)
FilterMapDates(es) ==
    IF es = <<>> THEN <<>>
    ELSE LET date == ParseDate(Head(es)[1])
         IN  (IF IsSome(date) THEN <<<<date.v, Head(es)[2]>>>> ELSE <<>>)
             \o FilterMapDates(Tail(es))

\* the stable sort by date: an entry goes after the entries dated <= its own
RECURSIVE InsertByDate(_, _)
InsertByDate(sorted, e) ==
    IF sorted = <<>> THEN <<e>>
    ELSE IF sorted[Len(sorted)][1] <= e[1] THEN Append(sorted, e)
    ELSE Append(InsertByDate(SubSeq(sorted, 1, Len(sorted) - 1), e), sorted[Len(sorted)])

RECURSIVE SortEntries(_)
SortEntries(rs) == IF rs = <<>> THEN <<>>
                   ELSE InsertByDate(SortEntries(SubSeq(rs, 1, Len(rs) - 1)), rs[Len(rs)])

\* SortByDate that leaves the entries in the order of the file's keys
SortByDateSkipped(rs) == rs

\* rates.sort_by_key(|(date, _)| *date)
SortByDate(rs) == SortEntries(rs)

RATES_DIR == Str("enrichment/rates")

\* Path::join: an absolute path takes the place of the base
path_join(base, p) == IF starts_with(p, Str("/")) THEN p
                      ELSE IF ends_with(base, Str("/")) THEN base \o p
                      ELSE base \o Str("/") \o p

\* RateHistory::load_from_path.  fs holds, for each path that can be read,
\* what serde_conl::from_str gives for the file: Ok(entries) or an error.
load_from_path(name, path, fs) ==
    IF path \notin DOMAIN fs
    THEN Err(Str("Failed to read rate file: ") \o path)
    ELSE IF ~IsOk(fs[path])
    THEN Err(Str("Failed to parse rate file: ") \o path)
    ELSE Ok([name |-> name, rates |-> SortByDate(FilterMapDates(IntoIter(fs[path].v)))])

\* RateHistory::load: the file is <RATES_DIR>/<name in lower case>.conl
RateHistory_load(name, fs) ==
    load_from_path(name, path_join(RATES_DIR, to_lowercase(name) \o Str(".conl")), fs)

\* the loop of rate_on_date: the last entry dated <= date before the first later one
RECURSIVE RateScan(_, _, _)
RateScan(rs, date, effective_rate) ==
    IF rs = <<>> THEN effective_rate
    ELSE IF Head(rs)[1] <= date THEN RateScan(Tail(rs), date, Some(Head(rs)[2]))
    ELSE effective_rate

rate_on_date(h, date) == RateScan(h.rates, date, None)

\* PostalRates::load: the first history that fails to load is the error
PostalRates_load(fs) ==
    LET letter == RateHistory_load(Str("letter"), fs)
        ounce == RateHistory_load(Str("ounce"), fs)
        postcard == RateHistory_load(Str("postcard"), fs)
    IN  IF ~IsOk(letter) THEN letter
        ELSE IF ~IsOk(ounce) THEN ounce
        ELSE IF ~IsOk(postcard) THEN postcard
        ELSE Ok([letter |-> letter.v, ounce |-> ounce.v, postcard |-> postcard.v])

letter_1oz(p, date) == rate_on_date(p.letter, date)

letter_2oz(p, date) ==
    LET base == rate_on_date(p.letter, date)
        additional == rate_on_date(p.ounce, date)
    IN  IF ~IsSome(base) THEN None
        ELSE IF ~IsSome(additional) THEN None
        ELSE Some(base.v + additional.v)

\* letter_3oz that adds one additional ounce instead of two
Letter3ozOneAdditional(p, date) ==
    LET base == rate_on_date(p.letter, date)
        additional == rate_on_date(p.ounce, date)
    IN  IF ~IsSome(base) THEN None
        ELSE IF ~IsSome(additional) THEN None
        ELSE Some(base.v + additional.v)

letter_3oz(p, date) ==
    LET base == rate_on_date(p.letter, date)
        additional == rate_on_date(p.ounce, date)
    IN  IF ~IsSome(base) THEN None
        ELSE IF ~IsSome(additional) THEN None
        ELSE Some(base.v + additional.v * 2)

letter_by_weight(p, date, ounces) ==
    CASE ounces = 0 -> None
      [] ounces = 1 -> letter_1oz(p, date)
      [] ounces = 2 -> letter_2oz(p, date)
      [] ounces = 3 -> letter_3oz(p, date)
      [] OTHER -> LET base == rate_on_date(p.letter, date)
                      additional == rate_on_date(p.ounce, date)
                  IN  IF ~IsSome(base) THEN None
                      ELSE IF ~IsSome(additional) THEN None
                      ELSE Some(base.v + additional.v * (ounces - 1))

(***************************************************************************)
(* main.rs: the rate override and the slug transformation of the scraper.  *)
(***************************************************************************)
SLUG_TYPO_FIXES ==
    <<
      <<Str("columbia-river-george"), Str("columbia-river-gorge")>>
    >>

SLUG_DENOMINATION_OVERRIDES ==
    <<
      <<Str("eid"), Str("34c")>>,
      <<Str("eid-2"), Str("forever")>>,
      <<Str("american-flag"), Str("41c")>>
    >>

PRIORITY_MAIL_EXPRESS_RATE_OVERRIDES ==
    <<
      <<Str("star-cluster"), Str("31.40")>>,
      <<Str("washington-monument"), Str("12.25")>>,
      <<Str("space-shuttle-piggyback"), Str("11.75")>>,
      <<Str("capitol-dome"), Str("13.65")>>,
      <<Str("x-planes-express"), Str("14.40")>>,
      <<Str("bixby-creek-bridge"), Str("18.30")>>,
      <<Str("carmel-mission"), Str("18.95")>>,
      <<Str("grand-central-terminal"), Str("19.95")>>,
      <<Str("uss-arizona-memorial"), Str("19.99")>>,
      <<Str("columbia-river-george"), Str("22.95")>>,
      <<Str("gateway-arch"), Str("23.75")>>,
      <<Str("sleeping-bear-dunes"), Str("24.70")>>,
      <<Str("bethesda-fountain"), Str("24.70")>>,
      <<Str("grand-island-ice-caves"), Str("26.35")>>,
      <<Str("palace-of-fine-arts"), Str("26.95")>>,
      <<Str("great-smoky-mountains"), Str("28.75")>>,
      <<Str("cosmic-cliffs"), Str("30.45")>>
    >>

\* the arms of the match on rate_type in get_denomination_suffix, in their order
RATE_TYPE_SUFFIXES ==
    <<
      <<Str("Forever"), Some(Str("forever"))>>,
      <<Str("Postcard"), Some(Str("postcard-forever"))>>,
      <<Str("International"), Some(Str("global-forever"))>>,
      <<Str("Global Forever"), Some(Str("global-forever"))>>,
      <<Str("Semipostal"), Some(Str("semipostal"))>>,
      <<Str("Additional Ounce"), Some(Str("additional-ounce"))>>,
      <<Str("Two Ounce"), Some(Str("2oz"))>>,
      <<Str("Three Ounce"), Some(Str("3oz"))>>,
      <<Str("Nonmachineable Surcharge"), Some(Str("nonmachinable"))>>,
      <<Str("Priority Mail"), Some(Str("priority"))>>,
      <<Str("Priority Mail Express"), Some(Str("express"))>>,
      <<Str("Other Denomination"), None>>,
      <<Str("Definitive"), None>>,
      <<Str("First Class"), None>>,
      <<Str("Special"), None>>,
      <<Str("Presorted First-Class"), None>>,
      <<Str("Presorted Standard"), None>>,
      <<Str("Nonprofit"), None>>,
      <<Str("Additional Postage"), Some(Str("additional"))>>
    >>

PriorityMailExpress == Str("Priority Mail Express")

\* `for (k, v) in table { if k == key { return v } }`: the first row whose key matches
RECURSIVE Lookup(_, _)
Lookup(tbl, k) == IF tbl = <<>> THEN None
                  ELSE IF Head(tbl)[1] = k THEN Some(Head(tbl)[2])
                  ELSE Lookup(Tail(tbl), k)

\* the call aborted by panic!
Panicked == [tag |-> "Panic"]

\* get_corrected_rate that tests the rate type before it looks for an override
GetCorrectedRateExpressFirst(slug, api_rate, rate_type) ==
    IF IsSome(rate_type) /\ rate_type.v = PriorityMailExpress
    THEN (IF IsSome(Lookup(PRIORITY_MAIL_EXPRESS_RATE_OVERRIDES, slug))
          THEN Lookup(PRIORITY_MAIL_EXPRESS_RATE_OVERRIDES, slug) ELSE Panicked)
    ELSE api_rate

get_corrected_rate(slug, api_rate, rate_type) ==
    LET override == Lookup(PRIORITY_MAIL_EXPRESS_RATE_OVERRIDES, slug)
        is_priority_express == IF IsSome(rate_type) THEN rate_type.v = PriorityMailExpress ELSE FALSE
    IN  IF IsSome(override) THEN override
        ELSE IF is_priority_express THEN Panicked
        ELSE api_rate

CENT == 162


\* str::find and str::rfind for a one-character pattern (1-based position)
find(s, c) == IF contains(s, <<c>>) THEN Some(Min(Occurrences(s, <<c>>))) ELSE None
rfind(s, c) == IF contains(s, <<c>>) THEN Some(Max(Occurrences(s, <<c>>))) ELSE None

\* chars().all(|c| c.is_ascii_digit()): true of the empty text
CharsAllDigits(s) == \A k \in 1..Len(s) : IsDigit(s[k])

\* the digits at the start of the name, taken while the next character is a digit
RECURSIVE LeadingDigits(_)
LeadingDigits(s) == IF s # <<>> /\ IsDigit(Head(s)) THEN <<Head(s)>> \o LeadingDigits(Tail(s)) ELSE <<>>

\* the amount of a name of the form `$<digits> ...`
DollarAmount(name) ==
    LET rest == strip_prefix(name, Str("$"))
    IN  IF ~IsSome(rest) THEN None
        ELSE LET space_idx == find(rest.v, SP)
             IN  IF ~IsSome(space_idx) THEN None
                 ELSE LET amount == SubSeq(rest.v, 1, space_idx.v - 1)
                      IN  IF CharsAllDigits(amount) THEN Some(amount) ELSE None

\* the digits of a name of the form `<digits>¢...` or `<digits>c ...`
CentDigits(name) ==
    LET digits == LeadingDigits(name)
        after_digits == SubSeq(name, Len(digits) + 1, Len(name))
    IN  IF digits = <<>> \/ after_digits = <<>> THEN None
        ELSE IF \/ after_digits[1] = CENT
                \/ (after_digits[1] = Chr["c"] /\ Len(after_digits) >= 2 /\ after_digits[2] = SP)
        THEN Some(digits)
        ELSE None

extract_denomination_from_name(name) ==
    IF IsSome(DollarAmount(name)) THEN Some(DollarAmount(name).v \o Str("d"))
    ELSE IF IsSome(CentDigits(name)) THEN Some(CentDigits(name).v \o Str("c"))
    ELSE None

\* get_denomination_suffix that looks at the name before the overrides
GetDenominationNameFirst(api_slug, name, rate_type, rate) ==
    IF IsSome(extract_denomination_from_name(name)) THEN extract_denomination_from_name(name)
    ELSE IF IsSome(Lookup(SLUG_DENOMINATION_OVERRIDES, api_slug))
    THEN Lookup(SLUG_DENOMINATION_OVERRIDES, api_slug)
    ELSE IF ~IsSome(rate_type) THEN None
    ELSE IF IsSome(Lookup(RATE_TYPE_SUFFIXES, rate_type.v)) THEN Lookup(RATE_TYPE_SUFFIXES, rate_type.v).v
    ELSE None

get_denomination_suffix(api_slug, name, rate_type, rate) ==
    IF IsSome(Lookup(SLUG_DENOMINATION_OVERRIDES, api_slug))
    THEN Lookup(SLUG_DENOMINATION_OVERRIDES, api_slug)
    ELSE IF IsSome(extract_denomination_from_name(name)) THEN extract_denomination_from_name(name)
    ELSE IF ~IsSome(rate_type) THEN None
    ELSE IF IsSome(Lookup(RATE_TYPE_SUFFIXES, rate_type.v)) THEN Lookup(RATE_TYPE_SUFFIXES, rate_type.v).v
    ELSE None

\* Step 1: the typo fixes
FixTypo(slug) == unwrap_or(Lookup(SLUG_TYPO_FIXES, slug), slug)

\* Step 2: a trailing `-<year>` is removed
StripYear(slug, year) ==
    LET year_suffix == Str("-") \o ToDec(year)
    IN  IF ends_with(slug, year_suffix) THEN SubSeq(slug, 1, Len(slug) - Len(year_suffix)) ELSE slug

\* Step 3: a trailing `-<one digit>` is removed
StripDisambiguation(slug) ==
    LET last_dash == rfind(slug, Chr["-"])
    IN  IF ~IsSome(last_dash) THEN slug
        ELSE LET suffix == SubSeq(slug, last_dash.v + 1, Len(slug))
             IN  IF Len(suffix) = 1 /\ IsDigit(suffix[1]) THEN SubSeq(slug, 1, last_dash.v - 1)
                 ELSE slug

\* Step 4: the amount at the start of the slug is removed when the name carries it
StripDollarPrefix(slug, name) ==
    IF IsSome(DollarAmount(name))
    THEN unwrap_or(strip_prefix(slug, DollarAmount(name).v \o Str("-")), slug)
    ELSE slug

StripCentPrefix(slug, name) ==
    IF IsSome(CentDigits(name))
    THEN unwrap_or(strip_prefix(slug, CentDigits(name).v \o Str("c-")), slug)
    ELSE slug

transform_slug_and_name(name, api_slug, year, rate_type, rate) ==
    LET slug == StripCentPrefix(StripDollarPrefix(StripDisambiguation(StripYear(FixTypo(api_slug),
                                                                               year)), name), name)
        denomination == get_denomination_suffix(api_slug, name, rate_type, rate)
    IN  [slug |-> IF IsSome(denomination)
                  THEN slug \o Str("-") \o denomination.v \o Str("-") \o ToDec(year)
                  ELSE slug \o Str("-") \o ToDec(year),
         name |-> name]

(***************************************************************************)
(* Inputs.  A file found on disk is a sequence of lines; the lines of the  *)
(* pool cover every shape the parser tells apart at each depth.            *)
(***************************************************************************)
LinePool ==
    {<<>>,
     Str("k = v"),
     Str("k"),
     Str("  = a"),
     Str("  = b"),
     Str("  ="),
     Str("    t = x"),
     Str("  j = w"),
     Str("= a"),
     Str("="),
     Str("k = \"\"\"md"),
     Str("  x")}

\* the end-to-end scenario of the specification
DocScenario ==
    <<Str("name = Apples"),
      Str("year = 2016"),
      Str("stamp_images"),
      Str("  = a.png"),
      Str("  = b.png"),
      Str("credits"),
      Str("  artist = Jane Doe")>>

\* a bare key with two items
DocArray ==
    <<Str("k"),
      Str("  = a"),
      Str("  = b")>>

\* a bare key, a lone `=`, one field
DocTableArray ==
    <<Str("k"),
      Str("  ="),
      Str("    title = x")>>

\* a table with a nested array that holds a blank line
DocNestedBlank ==
    <<Str("c"),
      Str("  s"),
      Str("    = a"),
      <<>>,
      Str("    = b"),
      Str("  j = w")>>

\* a table-array of two elements, the first with a nested array
DocProducts ==
    <<Str("p"),
      Str("  ="),
      Str("    t = x"),
      Str("    g"),
      Str("      = d"),
      Str("  ="),
      Str("    t = y"),
      Str("q = r")>>

\* a multi-line block with an inner blank line, a blank line and a key after it
DocMultiline ==
    <<Str("k = \"\"\"md"),
      Str("  x"),
      <<>>,
      Str("  y"),
      <<>>,
      Str("q = r")>>

\* an array with a blank line inside, then a top-level key and an indented item
DocArrayThenKey ==
    <<Str("k"),
      Str("  = a"),
      <<>>,
      Str("  = b"),
      Str("q = r"),
      Str("  = c")>>

\* a table, then a top-level key and an indented field
DocTableThenKey ==
    <<Str("c"),
      Str("  j = w"),
      Str("q = r"),
      Str("  j = v")>>

\* the same key twice at the top level, another key in between
DocDupTop ==
    <<Str("k = v"),
      Str("q = r"),
      Str("k = w")>>

\* the same key twice in a nested table
DocDupTable ==
    <<Str("c"),
      Str("  j = w"),
      Str("  j = v")>>

\* the same key twice in one element of a table-array
DocDupElement ==
    <<Str("p"),
      Str("  ="),
      Str("    t = x"),
      Str("    t = y")>>

\* values a file may give the `forever` key
ForeverValues == {Word.true, Word.false, Str("True"), <<DQ>> \o Word.true \o <<DQ>>,
                  Str("yes")}

\* the `forever` key holding a list instead of a scalar
DocForeverArray ==
    <<Key.forever,
      Word.ind1 \o Word.item \o Word.true>>

ForeverDocs == {<<KV(<<>>, Key.forever, v)>> : v \in ForeverValues} \cup {DocForeverArray}

\* the forms of a number str::parse::<f64> takes, and some it rejects
RateTexts ==
    {Str(".5"), Str("+1"), Str("1e2"), Str("1.005"),
     Str("0.125"), Str("0.375"), Str("-1"), Str("-0"),
     Str("inf"), Str("NaN"), Str("1."), Str("."), Str("1e"), Str("$1"),
     Str("1e23"), Str("0.1250000000000000001"), Str("1.7976931348623158e308")}

RateDocs == {<<KV(<<>>, Key.rate, v)>> : v \in RateTexts}
            \cup {<<KV(<<>>, Key.extra_cost, v)>> : v \in RateTexts}

\* lines of white space other than the space: a form feed between a key and
\* its items, a no-break space before a key
DocFormFeedLine ==
    <<Str("k"),
      <<FF>>,
      Str("  = a"),
      <<NBSP, Chr["j"], Chr[" "], Chr["="], Chr[" "], VT, Chr["w"], FF>>,
      Str("t = \"\"\""),
      Str(" x"),
      <<NEL>>,
      Str(" y")>>

\* a scalar and an array item written in double quotes, with an escape inside
DocQuotedValue ==
    <<Str("k = \"a\\n \"")>>

DocQuotedItem ==
    <<Str("k"),
      Str("  = \"a \"")>>

\* a bare key, a blank line, two items
DocBlankThenItems ==
    <<Str("k"),
      <<>>,
      Str("  = a"),
      Str("  = b")>>

\* a bare key, a blank line, a lone `=`, one field
DocBlankThenTable ==
    <<Str("k"),
      <<>>,
      Str("  ="),
      Str("    t = x")>>

\* a table-array with an element that has no field between two that have one
DocEmptyElement ==
    <<Str("p"),
      Str("  ="),
      Str("    t = x"),
      Str("  ="),
      Str("  ="),
      Str("    t = y")>>

\* a table that holds a bare key with a field one level deeper
DocNestedTable ==
    <<Str("k"),
      Str("  x"),
      Str("    t = x")>>

\* a product with a `metadata` sub-table
DocProductMetadata ==
    <<Key.products,
      Word.ind1 \o <<EQ>>,
      KV(Word.ind2, Key.title, Str("x")),
      Word.ind2 \o Key.metadata,
      KV(Word.ind3, Str("format"), Str("f"))>>

SeqsUpTo(S, k) == UNION {[1..m -> S] : m \in 0..k}

Docs == SeqsUpTo(LinePool, MaxDocLines)
        \cup {DocScenario, DocArray, DocTableArray, DocNestedBlank, DocProducts,
              DocMultiline, DocArrayThenKey, DocTableThenKey,
              DocDupTop, DocDupTable, DocDupElement,
              DocQuotedValue, DocQuotedItem, DocBlankThenItems, DocBlankThenTable,
              DocEmptyElement, DocProductMetadata, DocFormFeedLine}
        \cup ForeverDocs \cup RateDocs

\* the characters escape_value tells apart, one plain letter, and one white
\* space character escape_value does not look for
Alphabet == {Chr["a"], SP, DQ, SEMI, EQ, BS, TAB, LF, CR, FF}

Strs == SeqsUpTo(Alphabet, MaxStrLen)

\* the strings an emitted token is compared with: the letter of an escape
\* sequence is added, so that a backslash and a letter can stand next to it
EscapeProbes == SeqsUpTo(Alphabet \cup {Chr["n"]}, MaxStrLen)

NoCredits == [art_director |-> None, artist |-> None, designer |-> None,
              typographer |-> None, photographer |-> None, illustrator |-> None]

BaseMeta ==
    [name |-> Str("a"), slug |-> Str("s"), api_slug |-> Str("s"), url |-> Str("u"), year |-> 2016,
     issue_date |-> None, issue_location |-> None, rate |-> None, rate_type |-> None,
     extra_cost |-> None, forever |-> TRUE, stamp_type |-> "Stamp", series |-> None,
     stamp_images |-> <<>>, sheet_image |-> None, background_color |-> None,
     credits |-> NoCredits, about |-> None, products |-> <<>>]

FullMeta ==
    [BaseMeta EXCEPT !.issue_date = Some(Str("2016-01-02")),
                     !.issue_location = Some(Str("NY")),
                     !.rate = Some(Hundredths(73)),
                     !.rate_type = Some("GlobalForever"),
                     !.forever = FALSE,
                     !.stamp_type = "Card",
                     !.series = Some(Str("s e")),
                     !.sheet_image = Some(Str("h")),
                     !.background_color = Some(Str("#ff"))]

Product1 == [title |-> Str("t"), long_title |-> Some(Str("l t")), price |-> Some(Str("$1")),
             postal_store_url |-> Some(Str("p")), stamps_forever_url |-> None,
             images |-> <<Str("i"), Str("j")>>, metadata |-> None]

Product2 == [title |-> Str("u"), long_title |-> None, price |-> None,
             postal_store_url |-> None, stamps_forever_url |-> Some(Str("f")),
             images |-> <<>>, metadata |-> None]

\* a product that carries parsed metadata
Product3 == [title |-> Str("e"), long_title |-> None, price |-> None,
             postal_store_url |-> None, stamps_forever_url |-> None,
             images |-> <<>>,
             metadata |-> Some([format |-> Word.envelope, quantity |-> Some(50), size |-> None,
                                style |-> None, closure |-> None, sided |-> None])]

\* a semipostal: a record with a donation amount and a product with metadata
SemipostalMeta ==
    [FullMeta EXCEPT !.rate_type = Some("Semipostal"), !.extra_cost = Some(Hundredths(25)),
                     !.products = <<Product3>>]

AboutLinePool == {<<>>, Str("x")}
MaxAboutLines == 3
AboutPool == {None} \cup {Some(join(ls, <<LF>>)) : ls \in SeqsUpTo(AboutLinePool, MaxAboutLines) \ {<<>>}}

ImagesPool == {<<>>, <<Str("a")>>, <<Str("a"), Str("b")>>}
ArtistPool == {None, Some(Str("J D"))}
ProductsPool == {<<>>, <<Product1>>, <<Product2, Product1>>}

Metas ==
    {[BaseMeta EXCEPT !.name = s] : s \in Strs}
    \cup {[BaseMeta EXCEPT !.credits = [NoCredits EXCEPT !.designer = Some(s)]] : s \in Strs}
    \cup {[b EXCEPT !.about = ab, !.stamp_images = im, !.credits = [NoCredits EXCEPT !.artist = ar],
                    !.products = pr] :
             b \in {BaseMeta, FullMeta}, ab \in AboutPool, im \in ImagesPool,
             ar \in ArtistPool, pr \in ProductsPool}
    \cup {SemipostalMeta}


\* the keys of the rate files: four dates, one of them written without
\* padding (it sorts after `2024-10-01` as a text and before it as a date),
\* one written after a space (the first as a text, and the same day as
\* `2024-10-01`), and a key that is no date
DateKeys ==
    {Str("2023-01-22"),
     Str("2024-7-14"),
     Str("2024-10-01"),
     Str(" 2024-10-01"),
     Str("bad")}

\* the rate each key carries in the letter file, in hundredths
LetterRateOf(k) == CASE k = Str("2023-01-22") -> 63
                     [] k = Str("2024-7-14") -> 73
                     [] k = Str("2024-10-01") -> 78
                     [] k = Str(" 2024-10-01") -> 81
                     [] OTHER -> 99

LetterFiles == {[k \in S |-> LetterRateOf(k)] : S \in SUBSET DateKeys}

OunceRateOf(k) == IF k = Str("2023-01-22") THEN 24 ELSE 28

OunceFiles == {[k \in S |-> OunceRateOf(k)] : S \in SUBSET {Str("2023-01-22"), Str("2024-07-14")}}

PostcardFiles == {[k \in S |-> 48] : S \in SUBSET {Str("2023-01-22")}}

\* the names PostalRates::load gives to RateHistory::load, by field
HistoryName == [letter   |-> Str("letter"),
                ounce    |-> Str("ounce"),
                postcard |-> Str("postcard")]

RatePath(h) == path_join(RATES_DIR, HistoryName[h] \o Str(".conl"))

\* a file that serde_conl::from_str rejects
Unparseable == Err(<<>>)

\* the rates directory with the three files as given, None for a file that
\* is not there
RatesDir(l, o, c) ==
    LET given == [letter |-> l, ounce |-> o, postcard |-> c]
        there == {h \in DOMAIN given : IsSome(given[h])}
    IN  [path \in {RatePath(h) : h \in there} |->
            given[CHOOSE h \in there : RatePath(h) = path].v]

RateFiles ==
    {RatesDir(Some(Ok(l)), Some(Ok(o)), Some(Ok(c))) :
        l \in LetterFiles, o \in OunceFiles, c \in PostcardFiles}
    \cup {RatesDir(l, o, c) :
             l \in {None, Some(Unparseable), Some(Ok([k \in DateKeys |-> LetterRateOf(k)]))},
             o \in {None, Some(Ok([k \in {} |-> 0]))},
             c \in {None, Some(Unparseable)}}
    \* a directory that also holds the file U+A7CF and `.conl`
    \cup {RatesDir(Some(Ok(l)), None, None)
             @@ (path_join(RATES_DIR, <<42959>> \o Str(".conl")) :> Ok(l)) :
             l \in {[k \in DateKeys |-> LetterRateOf(k)]}}

\* the names RateHistory::load is called with
LoadNames == {Str("letter"), Str("Letter"),
              Str("OUNCE"), Str("Postcard"),
              Str("priority"),
              \* U+0391 U+03A3: the file looked for is U+03B1 U+03C2 and `.conl`
              <<913, 931>>,
              \* U+A7CE: the file looked for is U+A7CF and `.conl`
              <<42958>>}

QueryDates == {from_ymd(1800, 1, 1), from_ymd(2023, 1, 22), from_ymd(2024, 7, 13),
               from_ymd(2024, 9, 1), from_ymd(2025, 7, 14)}

MaxOunces == 4

\* slugs given to get_corrected_rate: with an override, without one, empty
RateSlugs ==
    {Str("star-cluster"),
     Str("great-smoky-mountains"),
     Str("columbia-river-george"),
     Str("columbia-river-gorge"),
     Str("cosmic-cliffs"),
     Str("love-2026"),
     Str("10c-poppies-and-coneflowers"),
     Str("unknown-express-stamp"),
     <<>>}

ApiRates ==
    {None,
     Some(Str("0.73")),
     Some(Str("99.99"))}

\* rate types as the API gives them, one of them unknown to the scraper
RateTypeTexts ==
    {None,
     Some(Str("Forever")),
     Some(Str("Postcard")),
     Some(Str("International")),
     Some(Str("Global Forever")),
     Some(Str("Priority Mail Express")),
     Some(Str("Definitive")),
     Some(Str("Other Denomination")),
     Some(Str("Additional Postage")),
     Some(Str("forever"))}

\* names with and without an amount in front
StampNames ==
    {Str("Apples"),
     <<49, CENT, 32>> \o Str("Apples"),
     Str("10c Poppies"),
     Str("10cents"),
     Str("$2 Floral"),
     Str("$x y"),
     Str("$ a")}

\* API slugs: plain, with a year, with a disambiguation digit, with an amount in front,
\* with an override, with a typo
ApiSlugs ==
    {Str("apples"),
     Str("apples-2"),
     Str("us-flags-2023"),
     Str("us-flags-2023-2"),
     Str("us-flags-2023-2023"),
     Str("2-floral"),
     Str("10c-poppies"),
     Str("1c-apples"),
     Str("eid"),
     Str("eid-2"),
     Str("american-flag"),
     Str("columbia-river-george"),
     Str("-a")}

IssueYears == {2022, 2023}

(***************************************************************************)
(* The program: a record is written with to_conl, or a file is read; the   *)
(* text is parsed, loaded as a Stamp and written again.                    *)
(***************************************************************************)
Init ==
    /\ \/ \E m \in Metas : origin = "record" /\ meta = Some(m) /\ content = <<>> /\ pc = "serialize"
                           /\ files = None
       \/ \E d \in Docs : origin = "text" /\ meta = None /\ content = join(d, <<LF>>) \o <<LF>>
                          /\ pc = "parse" /\ files = None
       \/ \E fs \in RateFiles : origin = "rates" /\ meta = None /\ content = <<>> /\ pc = "rates"
                                /\ files = Some(fs)
       \/ origin = "scraper" /\ meta = None /\ content = <<>> /\ pc = "scraper" /\ files = None
    /\ postal = None
    /\ call = [fn |-> "none"]
    /\ answer = None
    /\ lines = <<>>
    /\ i = 0
    /\ result = EmptyMap
    /\ key = <<>>
    /\ multiline = <<>>
    /\ objects = <<>>
    /\ obj = EmptyMap
    /\ nested_key = <<>>
    /\ nested_arr = <<>>
    /\ arr = <<>>
    /\ ret = None
    /\ stamp = None
    /\ out = None

Serialize ==
    /\ pc = "serialize"
    /\ content' = to_conl(meta.v)
    /\ pc' = "parse"
    /\ UNCHANGED <<origin, meta, side, lines, i, result, blockVars, ret, after>>

LoadStamp ==
    /\ pc = "done"
    /\ stamp' = Some(load_stamp(result))
    /\ pc' = "loaded"
    /\ UNCHANGED <<input, lines, i, result, blockVars, ret, out>>

Reserialize ==
    /\ pc = "loaded"
    /\ out' = Some(to_conl(StampToMetadata(stamp.v)))
    /\ pc' = "reserialized"
    /\ UNCHANGED <<input, lines, i, result, blockVars, ret, stamp>>

\* everything the parser and the serializer work on
pipeline == <<origin, meta, content, lines, i, result, blockVars, ret, after>>

\* PostalRates::load
LoadRates ==
    /\ pc = "rates"
    /\ postal' = PostalRates_load(files.v)
    /\ pc' = IF IsOk(PostalRates_load(files.v)) THEN "rated" ELSE "failed"
    /\ UNCHANGED <<pipeline, files, call, answer>>

\* one call of RateHistory::load
LoadHistory ==
    /\ pc = "rates"
    /\ \E name \in LoadNames :
          /\ call' = [fn |-> "RateHistory::load", name |-> name]
          /\ answer' = RateHistory_load(name, files.v)
    /\ pc' = "returned"
    /\ UNCHANGED <<pipeline, files, postal>>

\* RateHistory::rate_on_date on one of the three histories
RateOnDate ==
    /\ pc = "rated"
    /\ \E h \in {"letter", "ounce", "postcard"}, d \in QueryDates :
          /\ call' = [fn |-> "rate_on_date", history |-> h, date |-> d]
          /\ answer' = rate_on_date(postal.v[h], d)
    /\ UNCHANGED <<pipeline, pc, files, postal>>

\* PostalRates::letter_by_weight
LetterByWeight ==
    /\ pc = "rated"
    /\ \E d \in QueryDates, ounces \in 0..MaxOunces :
          /\ call' = [fn |-> "letter_by_weight", date |-> d, ounces |-> ounces]
          /\ answer' = letter_by_weight(postal.v, d, ounces)
    /\ UNCHANGED <<pipeline, pc, files, postal>>

\* one call of get_corrected_rate by the scraper
GetCorrectedRate ==
    /\ pc = "scraper"
    /\ \E slug \in RateSlugs, api_rate \in ApiRates, rate_type \in RateTypeTexts :
          /\ call' = [fn |-> "get_corrected_rate", slug |-> slug, api_rate |-> api_rate,
                       rate_type |-> rate_type]
          /\ answer' = get_corrected_rate(slug, api_rate, rate_type)
    /\ pc' = "returned"
    /\ UNCHANGED <<pipeline, files, postal>>

\* one call of transform_slug_and_name by the scraper
TransformSlugAndName ==
    /\ pc = "scraper"
    /\ \E name \in StampNames, api_slug \in ApiSlugs, year \in IssueYears,
          rate_type \in RateTypeTexts, rate \in ApiRates :
          /\ call' = [fn |-> "transform_slug_and_name", name |-> name, api_slug |-> api_slug,
                       year |-> year, rate_type |-> rate_type, rate |-> rate]
          /\ answer' = transform_slug_and_name(name, api_slug, year, rate_type, rate)
    /\ pc' = "returned"
    /\ UNCHANGED <<pipeline, files, postal>>

Next ==
    \/ Serialize
    \/ ParseStart
    \/ TopStep
    \/ MultilineStep
    \/ ArrayStep
    \/ ObjectStep
    \/ ObjectNestedStep
    \/ ObjArrayStep
    \/ ObjArrayObjStep
    \/ ObjArrayNestedStep
    \/ LoadStamp
    \/ Reserialize
    \/ LoadRates
    \/ LoadHistory
    \/ RateOnDate
    \/ LetterByWeight
    \/ GetCorrectedRate
    \/ TransformSlugAndName

Spec == Init /\ [][Next]_vars


(***************************************************************************)
(* Properties.                                                             *)
(***************************************************************************)
Written == origin = "record" /\ pc # "serialize"
Parsed == pc \in {"done", "loaded", "reserialized"}

\* the part of a text before its first line feed
FirstLine(s) == IF LFPositions(s) = {} THEN s ELSE SubSeq(s, 1, Min(LFPositions(s)) - 1)

\* what the parser holds for an optional or empty sequence field
ArrayOrAbsent(a) == IF a = <<>> THEN None ELSE Some(a)

ProductTitles(ps) == [k \in 1..Len(ps) |-> Some(ps[k].title)]
ParsedTitles(oa) == [k \in 1..Len(oa) |-> get_str(oa[k], Key.title)]

\* C1: the text written by to_conl, parsed by parse_conl, holds for every
\* string field exactly the value that was serialized (name, slug, api_slug,
\* url, series, the credits, the about text, the image lists, the product
\* titles).
C1_RoundTrip ==
    (Written /\ Parsed) =>
        LET m == meta.v
            co == as_object(MapGet(result, Key.credits))
            pa == as_object_array(MapGet(result, Key.products))
        IN  /\ get_str(result, Key.name) = Some(m.name)
            /\ get_str(result, Key.slug) = Some(m.slug)
            /\ get_str(result, Key.api_slug) = Some(m.api_slug)
            /\ get_str(result, Key.url) = Some(m.url)
            /\ get_str(result, Key.series) = m.series
            /\ get_str(result, Key.about) = m.about
            /\ as_array(MapGet(result, Key.stamp_images)) = ArrayOrAbsent(m.stamp_images)
            /\ IsSome(co) = ~Credits_is_empty(m.credits)
            /\ IsSome(co) => /\ get_str(co.v, Key.artist) = m.credits.artist
                             /\ get_str(co.v, Key.designer) = m.credits.designer
            /\ IsSome(pa) = (m.products # <<>>)
            /\ IsSome(pa) => ParsedTitles(pa.v) = ProductTitles(m.products)

\* C2: serializing a record, parsing and loading the text and serializing
\* the loaded record again gives the text of the first serialization.
C2_IdempotentSerialization ==
    (Written /\ pc = "reserialized") => out = Some(content)

\* the cases in which the claim has a value quoted, stated on the characters
QuotedCase(s) ==
    \/ Len(s) = 0
    \/ s[1] = SP
    \/ s[Len(s)] = SP
    \/ s[1] = DQ
    \/ \E k \in 1..Len(s) : s[k] \in {SEMI, EQ, LF, CR}

\* the two-character escape of one character
EscapeOf(c) == CASE c = BS -> <<BS, BS>>
                 [] c = DQ -> <<BS, DQ>>
                 [] c = LF -> <<BS, Chr["n"]>>
                 [] c = CR -> <<BS, Chr["r"]>>
                 [] c = TAB -> <<BS, Chr["t"]>>
                 [] OTHER -> <<c>>

RECURSIVE EscapeEach(_)
EscapeEach(s) == IF s = <<>> THEN <<>> ELSE EscapeOf(Head(s)) \o EscapeEach(Tail(s))

Quoted(s) == IF QuotedCase(s) THEN <<DQ>> \o EscapeEach(s) \o <<DQ>> ELSE s

\* C3: escape_value returns the value unchanged unless it is empty, starts or
\* ends with a space, starts with a double quote or contains ';', '=', LF or
\* CR; in those cases it returns the value in double quotes with each
\* backslash, double quote, LF, CR and tab replaced by its two-character
\* escape.  Read off the `name` line and the `designer` line that to_conl wrote.
C3_EscapeValue ==
    Written =>
        /\ FirstLine(content) = Key.name \o Word.sep \o Quoted(meta.v.name)
        /\ IsSome(meta.v.credits.designer) =>
              \E k \in 1..Len(str_lines(content)) :
                  str_lines(content)[k] = Word.ind1 \o Key.designer \o Word.sep \o Quoted(meta.v.credits.designer.v)
        /\ escape_value(meta.v.name) = Quoted(meta.v.name)

C3_Witness == Written /\ pc = "parse" /\ meta.v.name = <<DQ, BS>>

\* C4: the output of to_conl ends with exactly one line feed.
C4_SingleTrailingNewline ==
    Written => /\ content[Len(content)] = LF
               /\ content[Len(content) - 1] # LF

\* an about text with a blank line inside and none at its start or end
HasInnerBlankLine(t) ==
    LET ls == str_lines(t)
    IN  /\ Len(ls) >= 3
        /\ ls[1] # <<>>
        /\ ls[Len(ls)] # <<>>
        /\ t[Len(t)] # LF
        /\ \E k \in 2..(Len(ls) - 1) : ls[k] = <<>>

\* C5: a multi-line text with an inner blank line, written by to_conl and read
\* back by parse_conl, comes back with the blank line once and with nothing
\* added at its start or end.
C5_MultilineFidelity ==
    (Written /\ Parsed /\ IsSome(meta.v.about) /\ HasInnerBlankLine(meta.v.about.v))
        => get_str(result, Key.about) = meta.v.about

OneKey(k, v) == MapInsert(EmptyMap, k, v)

ItemLinesOnly(ls) == \A k \in 1..Len(ls) : starts_with(ls[k], Word.ind1 \o Word.item)
ItemValues(ls) == [k \in 1..Len(ls) |-> SubSeq(ls[k], 5, Len(ls[k]))]

\* C6: a bare key followed by `= a`, `= b` lines parses as the array of those
\* values in source order; a bare key followed by a lone `=` and an indented
\* `title = x` parses as a table-array with the one table {title: "x"}.
C6_ArrayVsTableArray ==
    (origin = "text" /\ Parsed) =>
        /\ (Len(lines) >= 2 /\ lines[1] = Str("k") /\ ItemLinesOnly(Tail(lines)))
              => result = OneKey(Str("k"), ConlArray(ItemValues(Tail(lines))))
        /\ lines = DocTableArray
              => result = OneKey(Str("k"), ConlObjectArray(<<OneKey(Key.title, ConlString(Str("x")))>>))
        /\ lines = <<Str("k"), Str("  ="), Str("    t = x")>>
              => result = OneKey(Str("k"), ConlObjectArray(<<OneKey(Str("t"), ConlString(Str("x")))>>))

C6_Witness == origin = "text" /\ pc = "done" /\ lines = DocArray

\* number of leading spaces of a line
RECURSIVE LeadingSpaces(_)
LeadingSpaces(l) == IF l # <<>> /\ Head(l) = SP THEN 1 + LeadingSpaces(Tail(l)) ELSE 0

\* a non-blank line whose nesting depth (leading spaces / 2) is below d
DedentBelow(l, d) == ~IsBlank(l) /\ LeadingSpaces(l) \div 2 < d

\* the loops that read the block under a bare key, with the depth of the block
BlockDepth(p) == CASE p = "array" -> 1
                   [] p = "object" -> 1
                   [] p = "objarray" -> 1
                   [] p = "object_nested" -> 2
                   [] p = "objarray_nested" -> 3
                   [] OTHER -> 0

EnclosingLevel(p) == CASE p = "array" -> "top"
                       [] p = "object" -> "top"
                       [] p = "objarray" -> "top"
                       [] p = "object_nested" -> "object"
                       [] p = "objarray_nested" -> "objarray_obj"
                       [] OTHER -> "none"

\* C7: the loop of a block under a bare key ends exactly at the first
\* non-blank line indented less than the block's depth (or at the end of the
\* input): on such a line it returns to the enclosing level without moving
\* past the line, and on any other line it stays in the block.
C7_DepthBoundary ==
    [][BlockDepth(pc) > 0 =>
          IF i >= n \/ DedentBelow(Line(i), BlockDepth(pc))
          THEN pc' = EnclosingLevel(pc) /\ i' = i
          ELSE pc' # EnclosingLevel(pc) /\ i' = i + 1]_vars

ScenarioResult ==
    MapInsert(MapInsert(MapInsert(MapInsert(EmptyMap,
        Key.name, ConlString(Str("Apples"))),
        Key.year, ConlString(Str("2016"))),
        Key.stamp_images, ConlArray(<<Str("a.png"), Str("b.png")>>)),
        Key.credits, ConlObject(OneKey(Key.artist, ConlString(Str("Jane Doe")))))

\* C8: the scenario parses to the four values and the loaded record
\* serializes to the very text that was read.
C8_ScenarioByteIdentical ==
    (origin = "text" /\ lines = DocScenario /\ pc = "reserialized")
        => result = ScenarioResult /\ out = Some(content)

\* C9: parse_conl never reads lines[i] with i past the end and always
\* returns a value.
C9_NoPanic ==
    /\ pc # "panic"
    /\ Parsed => ret.tag \in {"Ok", "Err"}

C9_Witness == origin = "text" /\ pc = "done" /\ n = 2 /\ lines[n] = Str("k") /\ ret.tag = "Ok"

\* the trimmed line is an array item or the lone `=`
IsItemLine(t) == t = <<EQ>> \/ starts_with(t, Word.item)

\* C10: when the first non-blank line of a file is an item line (`= value` or
\* a lone `=`), which is then met at the top level, parse_conl returns an
\* error that carries the 1-based number of that line.
C10_TopLevelItemIsError ==
    (origin = "text" /\ Parsed) =>
        \A j \in 1..n :
            (IsItemLine(trim(lines[j])) /\ \A k \in 1..(j - 1) : IsBlank(lines[k]))
                => (ret.tag = "Err" /\ ret.line = j)

\* a line of the form `key = value`, its key and its value
KVLine(l) == IsSome(split_once(trim(l), Word.sep))
LineKey(l) == trim(split_once(trim(l), Word.sep).v[1])
LineValue(l) == trim(split_once(trim(l), Word.sep).v[2])

\* a line that is a key alone
BareKeyLine(l) == ~IsBlank(l) /\ ~contains(trim(l), Word.sep) /\ ~starts_with(trim(l), <<EQ>>)

\* the table that `key = value` lines describe when the last occurrence of a key wins
LastWins(ls) ==
    [k \in {LineKey(ls[j]) : j \in 1..Len(ls)} |->
        LET last == CHOOSE j \in 1..Len(ls) :
                        /\ LineKey(ls[j]) = k
                        /\ \A h \in (j + 1)..Len(ls) : LineKey(ls[h]) # k
        IN  ConlString(LineValue(ls[last]))]

AllKV(ls, ind) == \A j \in 1..Len(ls) : KVLine(ls[j]) /\ starts_with(ls[j], ind)

\* C11: a key that occurs more than once in one table (top level, nested
\* table, one element of a table-array) does not fail the parse, and the
\* table holds one entry for it, with the value of its last occurrence.
C11_DuplicateKeysLastWins ==
    (origin = "text" /\ Parsed /\ n >= 1) =>
        /\ ret.tag = "Ok"
        /\ (AllKV(lines, <<>>) /\ \A j \in 1..n : ~starts_with(LineValue(lines[j]), Word.tq))
              => result = LastWins(lines)
        /\ (n >= 2 /\ BareKeyLine(lines[1]) /\ AllKV(Tail(lines), Word.ind1))
              => result = OneKey(trim(lines[1]), ConlObject(LastWins(Tail(lines))))
        /\ (n >= 3 /\ BareKeyLine(lines[1]) /\ lines[2] = Word.ind1 \o <<EQ>>
               /\ AllKV(Tail(Tail(lines)), Word.ind2))
              => result = OneKey(trim(lines[1]), ConlObjectArray(<<LastWins(Tail(Tail(lines)))>>))

C11_Witness == origin = "text" /\ pc = "done" /\ lines = DocDupElement
                 /\ result = OneKey(Str("p"), ConlObjectArray(<<OneKey(Str("t"), ConlString(Str("y")))>>))

Loaded == pc \in {"loaded", "reserialized"}

\* C12: load_stamp sets forever to true when the parsed table has no `forever`
\* key, and when the key holds a scalar, to true exactly when that scalar is
\* the text `true`.
C12_ForeverFlag ==
    Loaded =>
        LET f == MapGet(result, Key.forever)
        IN  /\ ~IsSome(f) => stamp.v.forever = TRUE
            /\ (IsSome(f) /\ f.v.tag = "String") => (stamp.v.forever = (f.v.v = Word.true))

C12_Witness == /\ origin = "text" /\ pc = "loaded"
               /\ result = OneKey(Key.forever, ConlString(Str("True")))
               /\ stamp.v.forever = FALSE

\* C13: loading a table whose `name` or `slug` key is missing or is not a
\* scalar returns an error, while a missing `background_color` gives a record
\* with that field absent.
C13_IdentityKeysRequired ==
    Loaded =>
        /\ (~IsSome(get_str(result, Key.name)) \/ ~IsSome(get_str(result, Key.slug)))
              => stamp.tag = "Err"
        /\ (stamp.tag = "Some" /\ ~IsSome(MapGet(result, Key.background_color)))
              => stamp.v.background_color = None

\* the name of the j-th field of Credits
CreditsFieldName(j) == <<"art_director", "artist", "designer", "typographer", "photographer",
                         "illustrator">>[j]

\* a text is one of the elements of a sequence, and its place there
Among(fields, k) == \E j \in 1..Len(fields) : fields[j] = k
IndexIn(fields, k) == CHOOSE j \in 1..Len(fields) : fields[j] = k

\* the key a line gives: the text before ` = `, or the whole line for a bare key
KeyOfLine(l) == IF KVLine(l) THEN LineKey(l) ELSE trim(l)

\* line j of ls is the line of one of the fields, at nesting depth d
FieldLine(ls, j, d, fields) == LeadingSpaces(ls[j]) = 2 * d /\ Among(fields, KeyOfLine(ls[j]))

\* the field lines at depth d that belong to one table come in the order of `fields`
FieldsInOrder(ls, d, fields) ==
    \A a \in 1..Len(ls) : \A b \in (a + 1)..Len(ls) :
        (/\ FieldLine(ls, a, d, fields)
         /\ FieldLine(ls, b, d, fields)
         /\ \A h \in a..b : trim(ls[h]) # <<EQ>>)
            => IndexIn(fields, KeyOfLine(ls[a])) < IndexIn(fields, KeyOfLine(ls[b]))

\* C14: the key lines to_conl writes for a record come in the order in which
\* the fields are declared in StampMetadata, and those of the credits and of
\* each product in the order of Credits and Product.
C14_FieldOrderAsDeclared ==
    Written =>
        /\ FieldsInOrder(str_lines(content), 0, StampMetadataFields)
        /\ FieldsInOrder(str_lines(content), 1, CreditsFields)
        /\ FieldsInOrder(str_lines(content), 2, ProductFields)

\* the text has just been written by to_conl
JustWritten == origin = "record" /\ pc = "parse"

\* the lines of ls at depth d that carry the key k
LinesOf(ls, d, k) ==
    {j \in 1..Len(ls) :
        /\ LeadingSpaces(ls[j]) = 2 * d
        /\ (trim(ls[j]) = k \/ starts_with(trim(ls[j]), k \o <<SP, EQ>>))}

BareKeys == {Key.stamp_images, Key.credits, Key.products, Key.images}

\* C15: to_conl writes no line for an optional field that is None and no bare
\* key for an empty list or for credits that are all None; every bare key
\* line of the output (stamp_images, credits, products, images) is followed
\* by a line at a deeper indent.
C15_OmissionRule ==
    JustWritten =>
        LET ls == str_lines(content)
            m == meta.v
            ps == m.products
        IN  /\ ~IsSome(m.issue_date) => LinesOf(ls, 0, Key.issue_date) = {}
            /\ ~IsSome(m.issue_location) => LinesOf(ls, 0, Key.issue_location) = {}
            /\ ~IsSome(m.rate) => LinesOf(ls, 0, Key.rate) = {}
            /\ ~IsSome(m.rate_type) => LinesOf(ls, 0, Key.rate_type) = {}
            /\ ~IsSome(m.extra_cost) => LinesOf(ls, 0, Key.extra_cost) = {}
            /\ ~IsSome(m.series) => LinesOf(ls, 0, Key.series) = {}
            /\ ~IsSome(m.background_color) => LinesOf(ls, 0, Key.background_color) = {}
            /\ ~IsSome(m.sheet_image) => LinesOf(ls, 0, Key.sheet_image) = {}
            /\ ~IsSome(m.about) => LinesOf(ls, 0, Key.about) = {}
            /\ m.stamp_images = <<>> => LinesOf(ls, 0, Key.stamp_images) = {}
            /\ m.products = <<>> => LinesOf(ls, 0, Key.products) = {}
            /\ (\A j \in 1..Len(CreditsFields) : ~IsSome(m.credits[CreditsFieldName(j)]))
                  => LinesOf(ls, 0, Key.credits) = {}
            /\ \A j \in 1..Len(CreditsFields) :
                  ~IsSome(m.credits[CreditsFieldName(j)]) => LinesOf(ls, 1, CreditsFields[j]) = {}
            /\ Cardinality(LinesOf(ls, 2, Key.long_title))
                  = Cardinality({j \in 1..Len(ps) : IsSome(ps[j].long_title)})
            /\ Cardinality(LinesOf(ls, 2, Key.price))
                  = Cardinality({j \in 1..Len(ps) : IsSome(ps[j].price)})
            /\ Cardinality(LinesOf(ls, 2, Key.postal_store_url))
                  = Cardinality({j \in 1..Len(ps) : IsSome(ps[j].postal_store_url)})
            /\ Cardinality(LinesOf(ls, 2, Key.stamps_forever_url))
                  = Cardinality({j \in 1..Len(ps) : IsSome(ps[j].stamps_forever_url)})
            /\ Cardinality(LinesOf(ls, 2, Key.images))
                  = Cardinality({j \in 1..Len(ps) : ps[j].images # <<>>})
            /\ \A j \in 1..Len(ls) :
                  (trim(ls[j]) \in BareKeys)
                     => /\ j < Len(ls)
                        /\ LeadingSpaces(ls[j + 1]) > LeadingSpaces(ls[j])

C15_Witness == /\ JustWritten
               /\ meta.v.products = <<Product2, Product1>>
               /\ meta.v.stamp_images # <<>>
               /\ IsSome(meta.v.credits.artist)
               /\ ~IsSome(meta.v.about)
               /\ ~IsSome(meta.v.series)

\* C16: a multi-line value is written as the opener `"""md` on the key's line,
\* then one line per line of the text: a non-blank line with two spaces
\* before it, a blank line as an empty line without indentation.
C16_MultilineEmission ==
    (JustWritten /\ IsSome(meta.v.about)) =>
        LET ls == str_lines(content)
            src == str_lines(meta.v.about.v)
            at == CHOOSE j \in 1..Len(ls) : starts_with(ls[j], Key.about \o Word.sep)
        IN  /\ ls[at] = Key.about \o Word.sep \o Word.tq \o Word.md
            /\ Len(ls) >= at + Len(src)
            /\ \A k \in 1..Len(src) :
                  ls[at + k] = IF IsBlank(src[k]) THEN <<>> ELSE Word.ind1 \o src[k]

\* the keys of a rate file that are dates, and the (date, rate) pairs they give
DatedKeys(f) == {k \in DOMAIN f : IsSome(ParseDate(k))}
DatedEntries(f) == {<<ParseDate(k).v, f[k]>> : k \in DatedKeys(f)}

Ascending(rs) == \A a \in 1..Len(rs) : \A b \in (a + 1)..Len(rs) : rs[a][1] <= rs[b][1]

\* the entries of the file a history of PostalRates is loaded from
FileOf(h) == files.v[RatePath(h)].v

\* the entries of a history: those of the file that are dated, in ascending
\* order of date
HoldsDatedEntries(rs, f) ==
    /\ Ascending(rs)
    /\ {rs[j] : j \in 1..Len(rs)} = DatedEntries(f)
    /\ Len(rs) = Cardinality(DatedKeys(f))

\* C17: after the load a RateHistory holds the dated entries of its file in
\* ascending order of date, and rate_on_date(d) returns the rate of the entry
\* with the greatest date <= d, or None when there is no such entry.
C17_RateHistorySorted ==
    /\ pc = "rated" =>
          \A h \in {"letter", "ounce", "postcard"} : HoldsDatedEntries(postal.v[h].rates, FileOf(h))
    /\ (call.fn = "RateHistory::load" /\ IsOk(answer)) =>
          \E path \in DOMAIN files.v : HoldsDatedEntries(answer.v.rates, files.v[path].v)
    /\ call.fn = "rate_on_date" =>
          LET f == FileOf(call.history)
              E == {k \in DatedKeys(f) : ParseDate(k).v <= call.date}
              last == {k \in E : \A x \in E : ParseDate(x).v <= ParseDate(k).v}
          IN  IF E = {} THEN answer = None ELSE \E k \in last : answer = Some(f[k])

C17_Witness == /\ call.fn = "rate_on_date"
               /\ call.history = "letter"
               /\ DOMAIN FileOf("letter") = DateKeys
               /\ call.date = from_ymd(2024, 9, 1)
               /\ answer = Some(73)

\* C18: letter_by_weight(date, n) is None for n = 0; for n >= 1 it is the
\* letter rate on the date plus (n - 1) times the additional-ounce rate on the
\* date; it is None when the letter history has no rate for the date, and for
\* n >= 2 also when the additional-ounce history has none.
C18_LetterByWeight ==
    call.fn = "letter_by_weight" =>
        LET letter == rate_on_date(postal.v.letter, call.date)
            ounce == rate_on_date(postal.v.ounce, call.date)
        IN  answer = IF call.ounces = 0 THEN None
                     ELSE IF ~IsSome(letter) THEN None
                     ELSE IF call.ounces = 1 THEN Some(letter.v)
                     ELSE IF ~IsSome(ounce) THEN None
                     ELSE Some(letter.v + (call.ounces - 1) * ounce.v)

C18_Witness == /\ call.fn = "letter_by_weight"
               /\ call.ounces = 3
               /\ call.date = from_ymd(2024, 9, 1)
               /\ answer = Some(129)

\* the rows of the override table that carry the slug
OverrideRows(slug) ==
    {j \in 1..Len(PRIORITY_MAIL_EXPRESS_RATE_OVERRIDES) :
        PRIORITY_MAIL_EXPRESS_RATE_OVERRIDES[j][1] = slug}

\* C19: get_corrected_rate returns the override rate of a slug that is in the
\* Priority Mail Express override table, whatever the API rate and the rate
\* type are; for a slug outside the table it panics when the rate type is
\* "Priority Mail Express" and returns the API rate unchanged otherwise.
C19_CorrectedRate ==
    call.fn = "get_corrected_rate" =>
        IF OverrideRows(call.slug) # {}
        THEN \A j \in OverrideRows(call.slug) :
                 answer = Some(PRIORITY_MAIL_EXPRESS_RATE_OVERRIDES[j][2])
        ELSE IF call.rate_type = Some(PriorityMailExpress) THEN answer = Panicked
        ELSE answer = call.api_rate

C19_Witness == /\ call.fn = "get_corrected_rate"
               /\ call.slug = Str("great-smoky-mountains")
               /\ call.rate_type = Some(Str("Other Denomination"))
               /\ call.api_rate = Some(Str("99.99"))
               /\ answer = Some(Str("28.75"))

\* s without the suffix, when it ends with it
DropSuffix(s, suffix) == IF ends_with(s, suffix) THEN SubSeq(s, 1, Len(s) - Len(suffix)) ELSE s

\* s without the prefix, when it starts with it
DropPrefix(s, prefix) == IF starts_with(s, prefix) THEN SubSeq(s, Len(prefix) + 1, Len(s)) ELSE s

\* s without a trailing `-N`, N one digit
DropDigitSuffix(s) ==
    IF Len(s) >= 2 /\ s[Len(s) - 1] = Chr["-"] /\ IsDigit(s[Len(s)]) THEN SubSeq(s, 1, Len(s) - 2) ELSE s

\* the base of the claim: typo fixed, trailing -{year} removed, then one trailing -N removed
ClaimedBase(api_slug, year) ==
    LET fixed == IF api_slug = Str("columbia-river-george")
                 THEN Str("columbia-river-gorge")
                 ELSE api_slug
    IN  DropDigitSuffix(DropSuffix(fixed, Str("-") \o ToDec(year)))

\* the denomination of the claim: the override of the slug, else the amount in
\* front of the name, else what the rate type maps to
ClaimedDenomination(api_slug, name, rate_type) ==
    LET overrides == {j \in 1..Len(SLUG_DENOMINATION_OVERRIDES) :
                         SLUG_DENOMINATION_OVERRIDES[j][1] = api_slug}
        mapped == IF IsSome(rate_type)
                  THEN {j \in 1..Len(RATE_TYPE_SUFFIXES) :
                           RATE_TYPE_SUFFIXES[j][1] = rate_type.v /\ IsSome(RATE_TYPE_SUFFIXES[j][2])}
                  ELSE {}
    IN  IF overrides # {} THEN Some(SLUG_DENOMINATION_OVERRIDES[CHOOSE j \in overrides : TRUE][2])
        ELSE IF IsSome(DollarAmount(name)) THEN Some(DollarAmount(name).v \o Str("d"))
        ELSE IF IsSome(CentDigits(name)) THEN Some(CentDigits(name).v \o Str("c"))
        ELSE IF mapped # {} THEN RATE_TYPE_SUFFIXES[CHOOSE j \in mapped : TRUE][2]
        ELSE None

\* {base}-{denomination}-{year}, or {base}-{year} without a denomination
SlugOf(base, denomination, year) ==
    base \o (IF IsSome(denomination) THEN Str("-") \o denomination.v ELSE <<>>) \o Str("-") \o ToDec(year)

\* C20 as stated: the slug is {base}-{denomination}-{year} or {base}-{year},
\* with the base the API slug after the typo fix, without a trailing -{year}
\* and then without one trailing -N, so that the year does not appear twice at
\* the end, and with the denomination chosen by the precedence override, amount
\* in front of the name, rate type.
C20_SlugFromBase ==
    call.fn = "transform_slug_and_name" =>
        /\ answer.slug = SlugOf(ClaimedBase(call.api_slug, call.year),
                              ClaimedDenomination(call.api_slug, call.name, call.rate_type),
                              call.year)
        /\ ~ends_with(answer.slug, Str("-") \o ToDec(call.year) \o Str("-") \o ToDec(call.year))

\* the prefix that names the amount of the name in the slug: `{amount}-` for a
\* name `${amount} ...`, `{digits}c-` for a name `{digits}¢...` or `{digits}c ...`
AmountPrefix(name) ==
    IF IsSome(DollarAmount(name)) THEN DollarAmount(name).v \o Str("-")
    ELSE IF IsSome(CentDigits(name)) THEN CentDigits(name).v \o Str("c-")
    ELSE <<>>

\* C20, amended: the slug is {base}-{denomination}-{year} or {base}-{year},
\* with the base the API slug after the typo fix, without a trailing -{year},
\* then without one trailing -N, and then without the amount of the name in
\* front ({amount}- or {digits}c-); the denomination is chosen by the
\* precedence override, amount in front of the name, rate type; the name is
\* returned as given.
C20_SlugFromBaseWithoutAmount ==
    call.fn = "transform_slug_and_name" =>
        /\ answer.slug = SlugOf(DropPrefix(ClaimedBase(call.api_slug, call.year), AmountPrefix(call.name)),
                              ClaimedDenomination(call.api_slug, call.name, call.rate_type),
                              call.year)
        /\ answer.name = call.name

C20_Witness == /\ call.fn = "transform_slug_and_name"
               /\ call.name = Str("$2 Floral")
               /\ call.api_slug = Str("2-floral")
               /\ call.year = 2022
               /\ answer.slug = Str("floral-2d-2022")

\* a token written in double quotes
QuotedToken(v) == Len(v) >= 2 /\ v[1] = DQ /\ v[Len(v)] = DQ

\* the character an escape sequence `\c` stands for
UnescapeOf(c) == CASE c = Chr["n"] -> LF
                   [] c = Chr["r"] -> CR
                   [] c = Chr["t"] -> TAB
                   [] OTHER -> c

\* the text with each escape sequence replaced by its character
RECURSIVE DecodeEscapes(_)
DecodeEscapes(s) ==
    IF s = <<>> THEN <<>>
    ELSE IF Head(s) = BS /\ Len(s) >= 2
    THEN <<UnescapeOf(s[2])>> \o DecodeEscapes(Tail(Tail(s)))
    ELSE <<Head(s)>> \o DecodeEscapes(Tail(s))

\* the plain text a token stands for
PlainText(v) == IF QuotedToken(v) THEN DecodeEscapes(SubSeq(v, 2, Len(v) - 1)) ELSE v

\* C21: a `key = value` line or `= value` item whose value is written in
\* double quotes is stored as the text between the quotes with the escape
\* sequences decoded; a stored scalar never keeps the surrounding quotes.
C21_QuotedValueStoredPlain ==
    (origin = "text" /\ Parsed) =>
        /\ (n = 1 /\ AllKV(lines, <<>>) /\ QuotedToken(LineValue(lines[1]))
              /\ ~starts_with(LineValue(lines[1]), Word.tq))
              => result = OneKey(LineKey(lines[1]), ConlString(PlainText(LineValue(lines[1]))))
        /\ (n >= 2 /\ BareKeyLine(lines[1]) /\ ItemLinesOnly(Tail(lines)))
              => result = OneKey(trim(lines[1]),
                                 ConlArray([j \in 1..(n - 1) |-> PlainText(ItemValues(Tail(lines))[j])]))

\* a top-level line that opens a multi-line block
OpenerLine(l) == /\ ~starts_with(l, <<SP>>)
                 /\ KVLine(l)
                 /\ starts_with(LineValue(l), Word.tq)

\* the lines of a block: indented by two spaces or blank
Contained(ls) == \A j \in 1..Len(ls) : starts_with(ls[j], Word.ind1) \/ IsBlank(ls[j])

\* the non-blank lines of a sequence of lines, trimmed, in their order
TrimmedNonBlank(ls) ==
    LET NonBlank(l) == ~IsBlank(l)
        kept == SelectSeq(ls, NonBlank)
    IN  [j \in 1..Len(kept) |-> trim(kept[j])]

\* C22: every line contained in a multi-line block is text of the block: a
\* file made of an opener and of contained lines of any shape (`x = y`,
\* `= item`, a lone `=`, a bare word) parses to the one key of the opener,
\* holding a scalar whose non-blank lines are the contained lines.
C22_BlockLinesAreRawText ==
    (origin = "text" /\ Parsed /\ n >= 1 /\ OpenerLine(lines[1]) /\ Contained(Tail(lines))) =>
        /\ DOMAIN result = {LineKey(lines[1])}
        /\ result[LineKey(lines[1])].tag = "String"
        /\ TrimmedNonBlank(str_lines(result[LineKey(lines[1])].v)) = TrimmedNonBlank(Tail(lines))

C22_Witness ==
    /\ origin = "text" /\ pc = "done"
    /\ lines = <<Str("k = \"\"\"md"),
                 Str("  j = w"),
                 Str("  = a")>>
    /\ result = OneKey(Str("k"), ConlString(<<Chr["j"], Chr[" "], Chr["="], Chr[" "], Chr["w"], LF, Chr["="], Chr[" "], Chr["a"]>>))

\* the least indentation of the non-blank lines of a block
CommonIndent(ls) == Min({LeadingSpaces(ls[j]) : j \in {h \in 1..Len(ls) : ~IsBlank(ls[h])}})

\* C23: the text of a multi-line block is its content lines without the
\* block's common indentation: a line indented deeper than the least-indented
\* content line keeps its extra leading spaces.
C23_CommonIndentationOnly ==
    (origin = "text" /\ Parsed /\ n >= 2 /\ OpenerLine(lines[1]) /\ Contained(Tail(lines))
       /\ \A j \in 2..n : ~IsBlank(lines[j])) =>
        LET body == Tail(lines)
            ci == CommonIndent(body)
        IN  get_str(result, LineKey(lines[1]))
              = Some(join([j \in 1..Len(body) |-> SubSeq(body[j], ci + 1, Len(body[j]))], <<LF>>))

\* the lines of a file after its first line, blank lines left out
AfterKeyNonBlank(ls) ==
    LET NonBlank(l) == ~IsBlank(l)
    IN  SelectSeq(Tail(ls), NonBlank)

\* C24: blank lines between a bare key and its block do not change the shape:
\* a bare key, blank lines and `= value` lines parse as the array of those
\* values, and a bare key, blank lines, a lone `=` and a field parse as a
\* table-array with that field.
C24_LookaheadSkipsBlanks ==
    (origin = "text" /\ Parsed /\ n >= 3 /\ lines[1] = Str("k") /\ IsBlank(lines[2])) =>
        /\ (AfterKeyNonBlank(lines) # <<>> /\ ItemLinesOnly(AfterKeyNonBlank(lines)))
              => result = OneKey(Str("k"), ConlArray(ItemValues(AfterKeyNonBlank(lines))))
        /\ lines = DocBlankThenTable
              => result = OneKey(Str("k"), ConlObjectArray(<<OneKey(Str("t"), ConlString(Str("x")))>>))

\* the `=` line that starts an element of a table-array under a top-level key
MarkerLine(l) == l = Word.ind1 \o <<EQ>>

\* the lines of a table-array block cut at its `=` lines: one group of field
\* lines for every `=` line, in source order (the block starts with a `=` line)
RECURSIVE MarkerGroups(_)
MarkerGroups(ls) ==
    IF ls = <<>> THEN <<>>
    ELSE LET rest == Tail(ls)
             markers == {j \in 1..Len(rest) : MarkerLine(rest[j])}
             stop == IF markers = {} THEN Len(rest) + 1 ELSE Min(markers)
         IN  <<SubSeq(rest, 1, stop - 1)>> \o MarkerGroups(SubSeq(rest, stop, Len(rest)))

\* a file that is a bare key and a table-array block of `=` lines and fields
TableArrayFile(ls) ==
    /\ Len(ls) >= 2
    /\ BareKeyLine(ls[1]) /\ ~starts_with(ls[1], <<SP>>)
    /\ MarkerLine(ls[2])
    /\ \A j \in 3..Len(ls) : MarkerLine(ls[j]) \/ (KVLine(ls[j]) /\ LeadingSpaces(ls[j]) = 4)

TablesOf(groups) == [j \in 1..Len(groups) |-> LastWins(groups[j])]

\* C25: the list of a table-array has one table for every `=` line, in
\* source order, each with the fields between its `=` line and the next.
C25_OneTablePerMarker ==
    (origin = "text" /\ Parsed /\ TableArrayFile(lines)) =>
        result = OneKey(lines[1], ConlObjectArray(TablesOf(MarkerGroups(Tail(lines)))))

\* C26: a bare key inside a table, or inside an element of a table-array,
\* followed by `key = value` lines one level deeper is a nested table with
\* those fields: `k`, `  x`, `    t = x` gives k = {x: {t: "x"}}, and the
\* `metadata` block of a product is loaded into Product.metadata.
C26_TablesNest ==
    (origin = "text" /\ Parsed) =>
        /\ lines = DocNestedTable
              => result = OneKey(Str("k"),
                                 ConlObject(OneKey(Str("x"),
                                                   ConlObject(OneKey(Str("t"), ConlString(Str("x")))))))
        /\ lines = DocProductMetadata
              => LET pa == as_object_array(MapGet(result, Key.products))
                 IN  /\ IsSome(pa) /\ Len(pa.v) = 1
                     /\ as_object(MapGet(pa.v[1], Key.metadata))
                           = Some(OneKey(Str("format"), ConlString(Str("f"))))
        /\ (Loaded /\ lines = DocProductMetadata)
              => /\ Len(stamp.v.products) = 1
                 /\ IsSome(stamp.v.products[1].metadata)
                 /\ stamp.v.products[1].metadata.v.format = Str("f")

\* C27: a table takes its fields only from lines at its own depth: a file of
\* indented `key = value` lines with no bare key above them leaves the
\* top-level table empty, and `key = value` lines two levels below a bare key
\* are not direct fields of the table of that key.
C27_FieldsAtOwnDepthOnly ==
    (origin = "text" /\ Parsed /\ n >= 1) =>
        /\ (\A j \in 1..n : KVLine(lines[j]) /\ LeadingSpaces(lines[j]) >= 2
                             /\ ~starts_with(LineValue(lines[j]), Word.tq))
              => result = EmptyMap
        /\ (n >= 2 /\ BareKeyLine(lines[1]) /\ LeadingSpaces(lines[1]) = 0
               /\ \A j \in 2..n : KVLine(lines[j]) /\ LeadingSpaces(lines[j]) = 4)
              => \A j \in 2..n :
                    LET t == as_object(MapGet(result, lines[1]))
                    IN  IsSome(t) => LineKey(lines[j]) \notin DOMAIN t.v

\* the loops of parse_conl and how deep each is nested
ParseLoops == {"top", "multiline", "array", "object", "objarray", "object_nested",
               "objarray_obj", "objarray_nested"}

LoopLevel(p) == CASE p = "top" -> 1
                  [] p \in {"multiline", "array", "object", "objarray"} -> 2
                  [] p \in {"object_nested", "objarray_obj"} -> 3
                  [] p = "objarray_nested" -> 4
                  [] OTHER -> 0

\* one iteration: the index moves forward by one line, or it stays and the
\* loop is left for the one that encloses it
IterationAdvancesOrExits ==
    pc \in ParseLoops =>
        \/ i' = i + 1 /\ i' <= n
        \/ i' = i /\ LoopLevel(pc') < LoopLevel(pc)

\* C28: every iteration of a loop of parse_conl moves the line index forward
\* by one line without passing the number of lines, or leaves the loop for
\* the enclosing one with the index unchanged; the index never decreases, so
\* the number of iterations is bounded by the lines and the nesting.
C28_ParseTerminates == [][IterationAdvancesOrExits]_vars

C28_Witness == origin = "text" /\ pc = "done" /\ lines = DocProducts /\ i = n /\ ret.tag = "Ok"

\* the token to_conl wrote for the name: the first line after `name = `
NameToken == SubSeq(FirstLine(content), Len(Key.name \o Word.sep) + 1, Len(FirstLine(content)))

\* the number of backslashes that stand directly before position k
RECURSIVE BackslashRun(_, _)
BackslashRun(tok, k) == IF k > 1 /\ tok[k - 1] = BS THEN 1 + BackslashRun(tok, k - 1) ELSE 0

\* a double quote inside a quoted token that no backslash escapes
UnescapedQuoteInside(tok) ==
    \E k \in 2..(Len(tok) - 1) : tok[k] = DQ /\ BackslashRun(SubSeq(tok, 2, Len(tok)), k - 1) % 2 = 0

\* C29: escape_value is injective (no other string gives the token written
\* for a name), its token holds no raw line feed or carriage return, a quoted
\* token holds no unescaped double quote between its quotes, and decoding the
\* token gives the string back.
C29_EscapeInjectiveSingleLine ==
    JustWritten =>
        LET s == meta.v.name
            tok == escape_value(s)
        IN  /\ NameToken = tok
            /\ \A t \in EscapeProbes : escape_value(t) = tok => t = s
            /\ \A k \in 1..Len(tok) : tok[k] \notin {LF, CR}
            /\ NeedsQuoting(s) => (QuotedToken(tok) /\ ~UnescapedQuoteInside(tok))
            /\ PlainText(tok) = s

C29_Witness == JustWritten /\ meta.v.name = <<LF, DQ>> /\ NameToken = <<DQ, BS, Chr["n"], BS, DQ, DQ>>

\* C30: every populated field of a record has its line in the text to_conl
\* writes (extra_cost and the metadata of a product included), and loading
\* the text gives back the extra_cost and the metadata of each product.
C30_NoPopulatedFieldLost ==
    /\ JustWritten =>
          LET ls == str_lines(content)
              m == meta.v
              ps == m.products
          IN  /\ IsSome(m.issue_date) => LinesOf(ls, 0, Key.issue_date) # {}
              /\ IsSome(m.issue_location) => LinesOf(ls, 0, Key.issue_location) # {}
              /\ IsSome(m.rate) => LinesOf(ls, 0, Key.rate) # {}
              /\ IsSome(m.rate_type) => LinesOf(ls, 0, Key.rate_type) # {}
              /\ IsSome(m.series) => LinesOf(ls, 0, Key.series) # {}
              /\ IsSome(m.background_color) => LinesOf(ls, 0, Key.background_color) # {}
              /\ IsSome(m.sheet_image) => LinesOf(ls, 0, Key.sheet_image) # {}
              /\ IsSome(m.about) => LinesOf(ls, 0, Key.about) # {}
              /\ m.stamp_images # <<>> => LinesOf(ls, 0, Key.stamp_images) # {}
              /\ m.products # <<>> => LinesOf(ls, 0, Key.products) # {}
              /\ \A j \in 1..Len(CreditsFields) :
                    IsSome(m.credits[CreditsFieldName(j)]) => LinesOf(ls, 1, CreditsFields[j]) # {}
              /\ Cardinality(LinesOf(ls, 2, Key.title)) = Len(ps)
              /\ IsSome(m.extra_cost) => LinesOf(ls, 0, Key.extra_cost) # {}
              /\ Cardinality(LinesOf(ls, 2, Key.metadata))
                    = Cardinality({j \in 1..Len(ps) : IsSome(ps[j].metadata)})
    /\ (Written /\ pc = "loaded") =>
          /\ stamp.v.extra_cost = meta.v.extra_cost
          /\ Len(stamp.v.products) = Len(meta.v.products)
          /\ Cardinality({j \in 1..Len(stamp.v.products) : IsSome(stamp.v.products[j].metadata)})
                = Cardinality({j \in 1..Len(meta.v.products) : IsSome(meta.v.products[j].metadata)})

====
